---- MODULE Spec2Model ----
(***************************************************************************)
(* A model of two subsystems of the compiler:                              *)
(*   - the bytecode codec of src/freyr/encoder.rs (InstructionEncoder,     *)
(*     InstructionDecoder, LayoutHelper), over 32-bit words;               *)
(*   - the semantic pipeline of src/semantic (lowering to HIR, the scope   *)
(*     checker, type inference).                                           *)
(***************************************************************************)
EXTENDS Integers, Sequences, FiniteSets, TLC

VARIABLES
    \* ---- codec ----
    cmode,            \* how the run was started: "instr", "word", "parts", "idle"
    overflow_checks,  \* build profile: TRUE = arithmetic overflow panics, FALSE = wraps
    ins,              \* the Instruction given to LayoutHelper::encode_instruction
    enc,              \* the InstructionEncoder {layout, current} being written
    written,          \* the writes the caller has made into enc so far
    word,             \* the encoded word (result of make / encode_instruction)
    decoded,          \* the Instruction returned by InstructionDecoder::decode
    reencoded,        \* encode_instruction(decoded)
    cpc,              \* position of the codec run
    fatal,            \* the panic message, "" when none
    \* ---- semantic pipeline ----
    unit,             \* the AST root given to do_analysis
    mir,              \* the HIR after the last completed pass
    initial_mir,      \* AnalysisResult.initial_mir: the HIR as lowered
    after_make_declarations_mir,  \* the HIR after first-assignment promotion
    globals,          \* the name registry of globals
    stage,            \* last completed pass of do_analysis, or the pass that failed
    failure,          \* the panic message of the pass that failed, "" when none
    \* ---- single calls ----
    invoked,          \* the operation called on its own, with its arguments
    outcome           \* what the call returned, or the panic it ended with

codec_vars == <<cmode, overflow_checks, ins, enc, written, word, decoded, reencoded, cpc, fatal>>
sem_vars == <<unit, mir, initial_mir, after_make_declarations_mir, globals, stage, failure>>
call_vars == <<invoked, outcome>>
vars == <<cmode, overflow_checks, ins, enc, written, word, decoded, reencoded, cpc, fatal,
          unit, mir, initial_mir, after_make_declarations_mir, globals, stage, failure,
          invoked, outcome>>

(***************************************************************************)
(* u32 arithmetic.  A 32-bit word is the record [hi, lo] of its top five   *)
(* bits and its low 27 bits (the pseudo-op and the parts of an instruction *)
(* word), so that every u32 value is representable and shifts and adds     *)
(* lose bits and carry exactly as u32 does.                                *)
(***************************************************************************)
WordBits == 32
PseudoOpBits == 5
LowWidth == WordBits - PseudoOpBits

U32(hi, lo) == [hi |-> hi, lo |-> lo]
Zero32 == U32(0, 0)

\* the u32 of a natural number below 2^31
FromNat(n) == U32(n \div (2 ^ LowWidth), n % (2 ^ LowWidth))

\* w << n on u32, n in 0 .. 31: the bits shifted out are lost
Shl(w, n) ==
    IF n = 0 THEN w
    ELSE IF n < LowWidth
    THEN U32(((w.lo \div (2 ^ (LowWidth - n)))
                + (IF n < PseudoOpBits THEN w.hi * (2 ^ n) ELSE 0)) % (2 ^ PseudoOpBits),
             (w.lo % (2 ^ (LowWidth - n))) * (2 ^ n))
    ELSE U32(((w.lo % (2 ^ PseudoOpBits)) * (2 ^ (n - LowWidth))) % (2 ^ PseudoOpBits), 0)

\* w >> n on u32, n in 0 .. 31
Shr(w, n) ==
    IF n = 0 THEN w
    ELSE IF n < LowWidth
    THEN U32(IF n < PseudoOpBits THEN w.hi \div (2 ^ n) ELSE 0,
             (w.lo \div (2 ^ n))
                + (IF n < PseudoOpBits THEN w.hi % (2 ^ n) ELSE w.hi) * (2 ^ (LowWidth - n)))
    ELSE U32(0, w.hi \div (2 ^ (n - LowWidth)))

\* a + b on u32: the wrapped sum, and whether the exact sum needs a 33rd bit
WrappingAdd(a, b) ==
    LET lo == a.lo + b.lo
    IN  U32((a.hi + b.hi + (lo \div (2 ^ LowWidth))) % (2 ^ PseudoOpBits), lo % (2 ^ LowWidth))
AddOverflows(a, b) ==
    a.hi + b.hi + ((a.lo + b.lo) \div (2 ^ LowWidth)) >= 2 ^ PseudoOpBits

\* the number held by the len bits of w from bit lo up (len <= 27)
BitsToNat(w, lo, len) == Shr(w, lo).lo % (2 ^ len)

\* the top five bits and the low 27 bits of a word, as numbers
TopBits(w) == w.hi
LowBits(w) == w.lo

truncate_to_bits(num, bits) == Shr(Shl(num, WordBits - bits), WordBits - bits)

delete_msb_bits_keep_all(num, bits) == num

delete_msb_bits(num, bits) == Shr(Shl(num, bits), bits)


(***************************************************************************)
(* The instruction table (vm/instructions.rs: get_all_instruction_layouts, *)
(* BitLayout, the enumerations of the instruction fields).                 *)
(***************************************************************************)
Range(f) == {f[i] : i \in DOMAIN f}

V(variant, value, pattern) == [variant |-> variant, value |-> value, pattern |-> pattern]

\* NumberOfBytes::Bytes1, Bytes2, Bytes4, Bytes8 are named by their size
NumberOfBytes == <<V(1, 1, 0), V(2, 2, 1), V(4, 4, 2), V(8, 8, 3)>>
LeftShift == <<V("None", 0, 0), V("Shift16", 16, 1), V("Shift32", 32, 2), V("Shift48", 48, 3)>>
LoadStoreAddressingMode ==
    <<V("Stack", 0, 0), V("RelativeForward", 1, 1), V("RelativeBackward", 2, 2), V("Absolute", 3, 3)>>
ShiftDirection == <<V("Left", 0, 0), V("Right", 1, 1)>>
OperationMode == <<V("PureStack", 0, 0), V("StackAndImmediate", 1, 1)>>
SignFlag == <<V("Unsigned", 0, 0), V("Signed", 1, 1)>>
BitwiseOperation == <<V("And", 0, 0), V("Or", 1, 1), V("Xor", 2, 2)>>
ArithmeticOperation ==
    <<V("Sum", 0, 0), V("Subtract", 1, 1), V("Multiply", 2, 2), V("Divide", 3, 3), V("Power", 4, 4)>>
CompareOperation ==
    <<V("Equals", 0, 0), V("NotEquals", 1, 1), V("LessThan", 2, 2), V("LessThanOrEquals", 3, 3),
      V("GreaterThan", 4, 4), V("GreaterThanOrEquals", 5, 5)>>
ControlRegister == <<V("BasePointer", 0, 0), V("StackPointer", 1, 1), V("InstructionPointer", 2, 2)>>
AddressJumpAddressSource == <<V("FromOperand", 0, 0), V("PopFromStack", 1, 1)>>

Variants(enum) == {e.variant : e \in Range(enum)}

\* get_bytes / get_shift_size / get_bit_pattern: the number a variant is written as
EnumValue(enum, variant) == (CHOOSE e \in Range(enum) : e.variant = variant).value

\* From<u8>: the variant of a decoded bit pattern; an undeclared pattern panics
Declared(enum, p) == \E e \in Range(enum) : e.pattern = p
EnumFromPattern(enum, p) ==
    IF Declared(enum, p)
    THEN (CHOOSE e \in Range(enum) : e.pattern = p).variant
    ELSE enum[1].variant

Immediate(name, length) ==
    [name |-> name, length |-> length, layout_type |-> "Immediate", patterns |-> <<>>]
BitPattern(name, length, enum) ==
    [name |-> name, length |-> length, layout_type |-> "BitPattern",
     patterns |-> [i \in DOMAIN enum |-> [value |-> enum[i].value, pattern |-> enum[i].pattern]]]
BitLayout(pseudoop, parts) == [instruction_pseudoop |-> pseudoop, layout |-> parts]

NumBytesPart == BitPattern("num bytes", 2, NumberOfBytes)
IntegerOpParts(enum) ==
    <<NumBytesPart, BitPattern("operation", 3, enum), BitPattern("sign", 1, SignFlag),
      BitPattern("mode", 1, OperationMode), Immediate("operand", 16)>>
JumpParts == <<BitPattern("source", 1, AddressJumpAddressSource), Immediate("offset", 26)>>
AddressParts ==
    <<NumBytesPart, BitPattern("mode", 2, LoadStoreAddressingMode), Immediate("operand", 23)>>

get_all_instruction_layouts ==
    [noop |-> BitLayout(0, <<>>),
     push_imm |-> BitLayout(1, <<NumBytesPart, BitPattern("lshift", 2, LeftShift),
                                 Immediate("immediate lsb", 16)>>),
     loadaddr |-> BitLayout(2, AddressParts),
     storeaddr |-> BitLayout(3, AddressParts),
     shift |-> BitLayout(4, <<NumBytesPart, BitPattern("direction", 1, ShiftDirection),
                              BitPattern("mode", 1, OperationMode),
                              BitPattern("keep sign", 1, SignFlag), Immediate("operand", 6)>>),
     bitwise |-> BitLayout(5, <<NumBytesPart, BitPattern("operation", 2, BitwiseOperation),
                                BitPattern("sign", 1, SignFlag),
                                BitPattern("mode", 1, OperationMode), Immediate("operand", 16)>>),
     integer_binary_op |-> BitLayout(6, IntegerOpParts(ArithmeticOperation)),
     integer_compare |-> BitLayout(7, IntegerOpParts(CompareOperation)),
     float_binary_op |-> BitLayout(8, <<NumBytesPart, BitPattern("operation", 3, ArithmeticOperation)>>),
     float_compare_op |-> BitLayout(9, <<NumBytesPart, BitPattern("operation", 3, CompareOperation)>>),
     push_reg |-> BitLayout(10, <<BitPattern("register", 2, ControlRegister)>>),
     pop_reg |-> BitLayout(11, <<BitPattern("register", 2, ControlRegister)>>),
     pop |-> BitLayout(12, <<NumBytesPart>>),
     stackoffset |-> BitLayout(13, <<Immediate("num bytes", 27)>>),
     call |-> BitLayout(14, JumpParts),
     return |-> BitLayout(15, <<>>),
     jz |-> BitLayout(16, JumpParts),
     jnz |-> BitLayout(17, JumpParts),
     jmp |-> BitLayout(18, JumpParts),
     exit |-> BitLayout(19, <<>>)]

LayoutNames == DOMAIN get_all_instruction_layouts

\* InstructionTable.pseudoops: the reverse index pseudo-op -> layout name
PseudoOps == {get_all_instruction_layouts[n].instruction_pseudoop : n \in LayoutNames}
pseudoops(p) == CHOOSE n \in LayoutNames : get_all_instruction_layouts[n].instruction_pseudoop = p

RECURSIVE PartOffset(_, _)
\* bit offset of the i-th part of a layout: 5 plus the lengths of the parts before it
PartOffset(parts, i) ==
    IF i = 1 THEN PseudoOpBits ELSE PartOffset(parts, i - 1) + parts[i - 1].length

\* BitLayout::get_part: (the raw field, the value it stands for) of a named part
get_part(layout, name, instruction) ==
    LET parts == layout.layout
        i == CHOOSE k \in DOMAIN parts : parts[k].name = name
        lp == parts[i]
        lo == WordBits - PartOffset(parts, i) - lp.length
        raw == BitsToNat(instruction, lo, lp.length)
        hits == {k \in DOMAIN lp.patterns : lp.patterns[k].pattern = raw}
    IN  <<raw,
          IF lp.layout_type = "Immediate" THEN raw
          ELSE IF hits = {} THEN 0
          ELSE lp.patterns[CHOOSE k \in hits : \A j \in hits : k <= j].value>>


(***************************************************************************)
(* InstructionEncoder                                                      *)
(***************************************************************************)
Ok(e) == [panic |-> FALSE, msg |-> "", enc |-> e]
Panic(e, msg) == [panic |-> TRUE, msg |-> msg, enc |-> e]

\* LayoutHelper::begin_encode: unwrap() of a missing layout name panics
begin_encode(name) ==
    IF name \in LayoutNames
    THEN Ok([layout |-> name,
             current |-> Shl(FromNat(get_all_instruction_layouts[name].instruction_pseudoop),
                             WordBits - PseudoOpBits)])
    ELSE Panic([layout |-> name, current |-> Zero32], "called Option::unwrap() on a None value")

\* self.current += positioned
AddToCurrent(e, positioned, checks) ==
    IF checks /\ AddOverflows(e.current, positioned)
    THEN Panic(e, "attempt to add with overflow")
    ELSE Ok([e EXCEPT !.current = WrappingAdd(e.current, positioned)])

\* the write of one found part (the body of the `if layout_part.name == part`)
encode_part(e, layout_part, bit_offset, value, checks) ==
    LET position_offset == (WordBits - bit_offset) - layout_part.length
    IN  IF layout_part.layout_type = "BitPattern"
        THEN LET hits == {k \in DOMAIN layout_part.patterns :
                            FromNat(layout_part.patterns[k].value) = value}
             IN  IF hits = {}
                 THEN Panic(e, "called Option::unwrap() on a None value")
                 ELSE LET pattern == layout_part.patterns[CHOOSE k \in hits : \A j \in hits : k <= j]
                          offseted == delete_msb_bits(FromNat(pattern.pattern), bit_offset)
                      IN  AddToCurrent(e, Shl(offseted, position_offset), checks)
        ELSE LET offseted == delete_msb_bits(value, bit_offset)
             IN  AddToCurrent(e, Shl(offseted, position_offset), checks)

\* a part that is not found is passed over
not_found_ignored(e, part) == Ok(e)
\* if !found { panic!(..) }
not_found(e, part) == Panic(e, "Could not find instruction part " \o part)

RECURSIVE encode_from(_, _, _, _, _, _)
\* the loop of InstructionEncoder::encode from the i-th part on
encode_from(e, i, bit_offset, part, value, checks) ==
    LET parts == get_all_instruction_layouts[e.layout].layout
    IN  IF i > Len(parts)
        THEN not_found(e, part)
        ELSE IF parts[i].name = part
        THEN encode_part(e, parts[i], bit_offset, value, checks)
        ELSE encode_from(e, i + 1, bit_offset + parts[i].length, part, value, checks)

\* InstructionEncoder::encode(part, value), value a u32
encode(e, part, value, checks) == encode_from(e, 1, PseudoOpBits, part, value, checks)

\* the bytes are read most significant first
from_be_bytes(bytes) ==
    LET byte(k) == IF k <= Len(bytes) THEN bytes[k] ELSE 0
    IN  U32(byte(1) \div 8, byte(4) + 256 * byte(3) + 65536 * byte(2) + 16777216 * (byte(1) % 8))
\* u32::from_le_bytes of a slice zero-padded to four bytes
from_le_bytes(bytes) ==
    LET byte(k) == IF k <= Len(bytes) THEN bytes[k] ELSE 0
    IN  U32(byte(4) \div 8, byte(1) + 256 * byte(2) + 65536 * byte(3) + 16777216 * (byte(4) % 8))

\* InstructionEncoder::encode_bytes(part, value), value a byte slice of up to 4 bytes
encode_bytes(e, part, bytes, checks) == encode(e, part, from_le_bytes(bytes), checks)

\* a write of a call chain: a scalar or a byte slice for a part
Scalar(part, n) == [part |-> part, bytes |-> FALSE, value |-> FromNat(n)]
Slice(part, bs) == [part |-> part, bytes |-> TRUE, value |-> bs]

RECURSIVE encode_chain(_, _, _, _)
\* begin_encode(..).encode(..).encode(..): a panic ends the chain
encode_chain(r, writes, i, checks) ==
    IF r.panic \/ i > Len(writes) THEN r
    ELSE encode_chain(IF writes[i].bytes
                      THEN encode_bytes(r.enc, writes[i].part, writes[i].value, checks)
                      ELSE encode(r.enc, writes[i].part, writes[i].value, checks),
                      writes, i + 1, checks)

\* the layout name and the writes LayoutHelper::encode_instruction makes for an instruction
InstructionLayout(i) ==
    CASE i.op = "StackOffset" -> "stackoffset"
      [] i.op = "PushImmediate" -> "push_imm"
      [] i.op = "LoadAddress" -> "loadaddr"
      [] i.op = "StoreAddress" -> "storeaddr"
      [] i.op = "BitShift" -> "shift"
      [] i.op = "Bitwise" -> "bitwise"
      [] i.op = "IntegerArithmetic" -> "integer_binary_op"
      [] i.op = "IntegerCompare" -> "integer_compare"
      [] i.op = "FloatArithmetic" -> "float_binary_op"
      [] i.op = "FloatCompare" -> "float_compare_op"
      [] i.op = "PushFromRegister" -> "push_reg"
      [] i.op = "PopIntoRegister" -> "pop_reg"
      [] i.op = "Pop" -> "pop"
      [] i.op = "Call" -> "call"
      [] i.op = "JumpIfZero" -> "jz"
      [] i.op = "JumpIfNotZero" -> "jnz"
      [] i.op = "JumpUnconditional" -> "jmp"
      [] i.op = "Exit" -> "exit"
      [] i.op = "Return" -> "return"
      [] OTHER -> "noop"

InstructionWrites(i) ==
    CASE i.op = "StackOffset" -> <<Scalar("num bytes", i.bytes)>>
      [] i.op = "PushImmediate" ->
            <<Scalar("num bytes", EnumValue(NumberOfBytes, i.bytes)),
              Scalar("lshift", EnumValue(LeftShift, i.lshift)),
              Slice("immediate lsb", i.immediate)>>
      [] i.op \in {"LoadAddress", "StoreAddress"} ->
            <<Scalar("num bytes", EnumValue(NumberOfBytes, i.bytes)),
              Scalar("mode", EnumValue(LoadStoreAddressingMode, i.mode)),
              Scalar("operand", i.operand)>>
      [] i.op = "BitShift" ->
            <<Scalar("num bytes", EnumValue(NumberOfBytes, i.bytes)),
              Scalar("direction", EnumValue(ShiftDirection, i.direction)),
              Scalar("mode", EnumValue(OperationMode, i.mode)),
              Scalar("keep sign", EnumValue(SignFlag, i.sign)),
              Scalar("operand", i.operand)>>
      [] i.op = "Bitwise" ->
            <<Scalar("num bytes", EnumValue(NumberOfBytes, i.bytes)),
              Scalar("operation", EnumValue(BitwiseOperation, i.operation)),
              Scalar("mode", EnumValue(OperationMode, i.mode)),
              Scalar("sign", EnumValue(SignFlag, i.sign)),
              Slice("operand", i.operand)>>
      [] i.op = "IntegerArithmetic" ->
            <<Scalar("num bytes", EnumValue(NumberOfBytes, i.bytes)),
              Scalar("operation", EnumValue(ArithmeticOperation, i.operation)),
              Scalar("sign", EnumValue(SignFlag, i.sign)),
              Scalar("mode", EnumValue(OperationMode, i.mode)),
              Slice("operand", i.operand)>>
      [] i.op = "IntegerCompare" ->
            <<Scalar("num bytes", EnumValue(NumberOfBytes, i.bytes)),
              Scalar("operation", EnumValue(CompareOperation, i.operation)),
              Scalar("sign", EnumValue(SignFlag, i.sign)),
              Scalar("mode", EnumValue(OperationMode, i.mode)),
              Slice("operand", i.operand)>>
      [] i.op = "FloatArithmetic" ->
            <<Scalar("num bytes", EnumValue(NumberOfBytes, i.bytes)),
              Scalar("operation", EnumValue(ArithmeticOperation, i.operation))>>
      [] i.op = "FloatCompare" ->
            <<Scalar("num bytes", EnumValue(NumberOfBytes, i.bytes)),
              Scalar("operation", EnumValue(CompareOperation, i.operation))>>
      [] i.op \in {"PushFromRegister", "PopIntoRegister"} ->
            <<Scalar("register", EnumValue(ControlRegister, i.control_register))>>
      [] i.op = "Pop" -> <<Scalar("num bytes", EnumValue(NumberOfBytes, i.bytes))>>
      [] i.op \in {"Call", "JumpIfZero", "JumpIfNotZero", "JumpUnconditional"} ->
            <<Scalar("source", EnumValue(AddressJumpAddressSource, i.source)),
              Scalar("offset", i.offset)>>
      [] OTHER -> <<>>

\* LayoutHelper::encode_instruction; make() returns enc.current
encode_instruction(i, checks) ==
    IF i.op = "Noop" THEN Ok([layout |-> "noop", current |-> Zero32])
    ELSE encode_chain(begin_encode(InstructionLayout(i)), InstructionWrites(i), 1, checks)

\* the free function encode_stackoffset(offset), offset a u32
encode_stackoffset(offset) ==
    LET bit_pattern == Shl(FromNat(13), 27)
        bytes == truncate_to_bits(offset, 27)
    IN  WrappingAdd(bit_pattern, bytes)

\* asm::AssemblyInstruction: StackOffset { bytes } and the variants the
\* encoder does not name
AsmStackOffset(bytes) == [asm |-> "StackOffset", bytes |-> bytes]
AsmOther(variant) == [asm |-> "Other", variant |-> variant]

\* the free function encode_instruction(ins: &AssemblyInstruction)
encode_asm_instruction(i) ==
    IF i.asm = "StackOffset" THEN encode_stackoffset(FromNat(i.bytes)) ELSE Zero32

encode_asm_reversed(code) ==
    [k \in DOMAIN code |-> encode_asm_instruction(code[Len(code) + 1 - k])]
encode_asm(code) == [k \in DOMAIN code |-> encode_asm_instruction(code[k])]


(***************************************************************************)
(* InstructionDecoder                                                      *)
(***************************************************************************)
NoIns == [op |-> "none"]
Decoded(i) == [panic |-> FALSE, msg |-> "", ins |-> i]
DecodePanic(msg) == [panic |-> TRUE, msg |-> msg, ins |-> NoIns]

\* (x as u16).to_le_bytes()
to_le_bytes16(x) == <<x % 256, (x \div 256) % 256>>

\* a decoded instruction whose fields came through From<u8>: ok tells whether
\* every pattern was a declared one, the conversion panics otherwise
Converted(ok, i) == IF ok THEN Decoded(i) ELSE DecodePanic("invalid bit pattern")

\* InstructionDecoder::decode
decode(layout, instruction) ==
    LET pseudoop == layout.instruction_pseudoop
        raw(name) == get_part(layout, name, instruction)[1]
        value(name) == get_part(layout, name, instruction)[2]
    IN  CASE pseudoop = 0 -> Decoded([op |-> "Noop"])
          [] pseudoop = 1 ->
                Converted(Declared(NumberOfBytes, raw("num bytes")) /\ Declared(LeftShift, raw("lshift")),
                          [op |-> "PushImmediate",
                           bytes |-> EnumFromPattern(NumberOfBytes, raw("num bytes")),
                           immediate |-> to_le_bytes16(raw("immediate lsb")),
                           lshift |-> EnumFromPattern(LeftShift, raw("lshift"))])
          [] pseudoop = 13 -> Decoded([op |-> "StackOffset", bytes |-> value("num bytes")])
          [] pseudoop = 2 ->
                Converted(Declared(NumberOfBytes, raw("num bytes")) /\ Declared(LoadStoreAddressingMode, raw("mode")),
                          [op |-> "LoadAddress",
                           bytes |-> EnumFromPattern(NumberOfBytes, raw("num bytes")),
                           mode |-> EnumFromPattern(LoadStoreAddressingMode, raw("mode")),
                           operand |-> value("operand")])
          [] pseudoop = 3 ->
                Converted(Declared(NumberOfBytes, raw("num bytes")) /\ Declared(LoadStoreAddressingMode, raw("mode")),
                          [op |-> "StoreAddress",
                           bytes |-> EnumFromPattern(NumberOfBytes, raw("num bytes")),
                           mode |-> EnumFromPattern(LoadStoreAddressingMode, raw("mode")),
                           operand |-> value("operand")])
          [] pseudoop = 4 ->
                Converted(Declared(NumberOfBytes, raw("num bytes")) /\ Declared(OperationMode, raw("mode")) /\ Declared(ShiftDirection, raw("direction")) /\ Declared(SignFlag, raw("keep sign")),
                          [op |-> "BitShift",
                           bytes |-> EnumFromPattern(NumberOfBytes, raw("num bytes")),
                           mode |-> EnumFromPattern(OperationMode, raw("mode")),
                           direction |-> EnumFromPattern(ShiftDirection, raw("direction")),
                           sign |-> EnumFromPattern(SignFlag, raw("keep sign")),
                           operand |-> value("operand") % 256])
          [] pseudoop = 5 ->
                Converted(Declared(NumberOfBytes, raw("num bytes")) /\ Declared(OperationMode, raw("mode")) /\ Declared(BitwiseOperation, raw("operation")) /\ Declared(SignFlag, raw("sign")),
                          [op |-> "Bitwise",
                           bytes |-> EnumFromPattern(NumberOfBytes, raw("num bytes")),
                           mode |-> EnumFromPattern(OperationMode, raw("mode")),
                           operation |-> EnumFromPattern(BitwiseOperation, raw("operation")),
                           sign |-> EnumFromPattern(SignFlag, raw("sign")),
                           operand |-> to_le_bytes16(value("operand"))])
          [] pseudoop = 6 ->
                Converted(Declared(NumberOfBytes, raw("num bytes")) /\ Declared(SignFlag, raw("sign")) /\ Declared(OperationMode, raw("mode")) /\ Declared(ArithmeticOperation, raw("operation")),
                          [op |-> "IntegerArithmetic",
                           bytes |-> EnumFromPattern(NumberOfBytes, raw("num bytes")),
                           sign |-> EnumFromPattern(SignFlag, raw("sign")),
                           mode |-> EnumFromPattern(OperationMode, raw("mode")),
                           operation |-> EnumFromPattern(ArithmeticOperation, raw("operation")),
                           operand |-> to_le_bytes16(value("operand"))])
          [] pseudoop = 7 ->
                Converted(Declared(NumberOfBytes, raw("num bytes")) /\ Declared(SignFlag, raw("sign")) /\ Declared(OperationMode, raw("mode")) /\ Declared(CompareOperation, raw("operation")),
                          [op |-> "IntegerCompare",
                           bytes |-> EnumFromPattern(NumberOfBytes, raw("num bytes")),
                           sign |-> EnumFromPattern(SignFlag, raw("sign")),
                           mode |-> EnumFromPattern(OperationMode, raw("mode")),
                           operation |-> EnumFromPattern(CompareOperation, raw("operation")),
                           operand |-> to_le_bytes16(value("operand"))])
          [] pseudoop = 8 ->
                Converted(Declared(NumberOfBytes, raw("num bytes")) /\ Declared(ArithmeticOperation, raw("operation")),
                          [op |-> "FloatArithmetic",
                           bytes |-> EnumFromPattern(NumberOfBytes, raw("num bytes")),
                           operation |-> EnumFromPattern(ArithmeticOperation, raw("operation"))])
          [] pseudoop = 9 ->
                Converted(Declared(NumberOfBytes, raw("num bytes")) /\ Declared(CompareOperation, raw("operation")),
                          [op |-> "FloatCompare",
                           bytes |-> EnumFromPattern(NumberOfBytes, raw("num bytes")),
                           operation |-> EnumFromPattern(CompareOperation, raw("operation"))])
          [] pseudoop = 10 ->
                Converted(Declared(ControlRegister, raw("register")),
                          [op |-> "PushFromRegister",
                           control_register |-> EnumFromPattern(ControlRegister, raw("register"))])
          [] pseudoop = 11 ->
                Converted(Declared(ControlRegister, raw("register")),
                          [op |-> "PopIntoRegister",
                           control_register |-> EnumFromPattern(ControlRegister, raw("register"))])
          [] pseudoop = 12 ->
                Converted(Declared(NumberOfBytes, raw("num bytes")),
                          [op |-> "Pop", bytes |-> EnumFromPattern(NumberOfBytes, raw("num bytes"))])
          [] pseudoop = 14 ->
                Converted(Declared(AddressJumpAddressSource, raw("source")),
                          [op |-> "Call",
                           source |-> EnumFromPattern(AddressJumpAddressSource, raw("source")),
                           offset |-> value("offset")])
          [] pseudoop = 15 -> Decoded([op |-> "Return"])
          [] OTHER -> DecodePanic("Not recognized")

\* LayoutHelper::begin_decode followed by InstructionDecoder::decode
begin_decode_decode(instruction) ==
    LET pseudo_op == TopBits(instruction)
    IN  IF pseudo_op \in PseudoOps
        THEN decode(get_all_instruction_layouts[pseudoops(pseudo_op)], instruction)
        ELSE DecodePanic("No instruction found for pseudo op")


(***************************************************************************)
(* The inputs of the codec runs                                            *)
(***************************************************************************)
\* how many of the sample values of each operand the runs draw from
MaxOperandSamples == 3

Take(seq, n) == {seq[k] : k \in 1 .. (IF n < Len(seq) THEN n ELSE Len(seq))}

\* two-byte immediates, u32 operands of 23, 26 and 27 bit parts, u8 shift operands;
\* the values past the first few do not fit their part
ImmediateSamples == Take(<<<<25, 0>>, <<255, 255>>, <<0, 0>>, <<0, 1>>>>, MaxOperandSamples)
AddressSamples == Take(<<45, 8388607, 8388608, 0>>, MaxOperandSamples)
OffsetSamples == Take(<<151, 67108863, 67108864, 0>>, MaxOperandSamples)
StackOffsetSamples == Take(<<12347, 134217727, 134217733, 0, 2147483647>>, MaxOperandSamples + 1)
ShiftSamples == Take(<<12, 63, 64, 255>>, MaxOperandSamples)

Instructions ==
    {[op |-> "Noop"], [op |-> "Return"], [op |-> "Exit"]}
    \cup {[op |-> "StackOffset", bytes |-> b] : b \in StackOffsetSamples}
    \cup {[op |-> "PushImmediate", bytes |-> b, lshift |-> l, immediate |-> i] :
            b \in Variants(NumberOfBytes), l \in Variants(LeftShift), i \in ImmediateSamples}
    \cup {[op |-> o, bytes |-> b, mode |-> m, operand |-> x] :
            o \in {"LoadAddress", "StoreAddress"}, b \in Variants(NumberOfBytes),
            m \in Variants(LoadStoreAddressingMode), x \in AddressSamples}
    \cup {[op |-> "BitShift", bytes |-> b, direction |-> d, mode |-> m, sign |-> g, operand |-> x] :
            b \in Variants(NumberOfBytes), d \in Variants(ShiftDirection),
            m \in Variants(OperationMode), g \in Variants(SignFlag), x \in ShiftSamples}
    \cup {[op |-> "Bitwise", bytes |-> b, operation |-> o, sign |-> g, mode |-> m, operand |-> x] :
            b \in Variants(NumberOfBytes), o \in Variants(BitwiseOperation),
            g \in Variants(SignFlag), m \in Variants(OperationMode), x \in ImmediateSamples}
    \cup {[op |-> "IntegerArithmetic", bytes |-> b, operation |-> o, sign |-> g, mode |-> m,
           operand |-> x] :
            b \in Variants(NumberOfBytes), o \in Variants(ArithmeticOperation),
            g \in Variants(SignFlag), m \in Variants(OperationMode), x \in ImmediateSamples}
    \cup {[op |-> "IntegerCompare", bytes |-> b, operation |-> o, sign |-> g, mode |-> m,
           operand |-> x] :
            b \in Variants(NumberOfBytes), o \in Variants(CompareOperation),
            g \in Variants(SignFlag), m \in Variants(OperationMode), x \in ImmediateSamples}
    \cup {[op |-> "FloatArithmetic", bytes |-> b, operation |-> o] :
            b \in Variants(NumberOfBytes), o \in Variants(ArithmeticOperation)}
    \cup {[op |-> "FloatCompare", bytes |-> b, operation |-> o] :
            b \in Variants(NumberOfBytes), o \in Variants(CompareOperation)}
    \cup {[op |-> o, control_register |-> r] :
            o \in {"PushFromRegister", "PopIntoRegister"}, r \in Variants(ControlRegister)}
    \cup {[op |-> "Pop", bytes |-> b] : b \in Variants(NumberOfBytes)}
    \cup {[op |-> o, source |-> c, offset |-> x] :
            o \in {"Call", "JumpIfZero", "JumpIfNotZero", "JumpUnconditional"},
            c \in Variants(AddressJumpAddressSource), x \in OffsetSamples}

\* the field values of an instruction fit the parts they are written to
Fits(i) ==
    CASE i.op = "StackOffset" -> i.bytes < 2 ^ 27
      [] i.op \in {"LoadAddress", "StoreAddress"} -> i.operand < 2 ^ 23
      [] i.op = "BitShift" -> i.operand < 2 ^ 6
      [] i.op \in {"Call", "JumpIfZero", "JumpIfNotZero", "JumpUnconditional"} -> i.offset < 2 ^ 26
      [] OTHER -> TRUE

\* words given to begin_decode directly: every five-bit pseudo-op over sample low bits
LowBitSamples == Take(<<0, 1, 134217727, 12347>>, MaxOperandSamples)
Words == {U32(p, l) : p \in 0 .. 31, l \in LowBitSamples}

\* what a caller writing part by part passes: names of the layout and one unknown
\* name; for a pattern part its first declared values and one undeclared value,
\* for an immediate part 1, the largest value that fits and the first that
\* does not
PartNames(name) == {get_all_instruction_layouts[name].layout[k].name :
                      k \in DOMAIN get_all_instruction_layouts[name].layout} \cup {"no such part"}
PartValues(name, part) ==
    LET parts == get_all_instruction_layouts[name].layout
        ks == {k \in DOMAIN parts : parts[k].name = part}
    IN  IF ks = {} THEN {0}
        ELSE LET lp == parts[CHOOSE k \in ks : TRUE]
             IN  IF lp.layout_type = "BitPattern"
                 THEN {lp.patterns[1].value, lp.patterns[2].value, 1023}
                 ELSE {1, 2 ^ lp.length - 1, 2 ^ lp.length}

\* byte slices of length 0 to 4 given to encode_bytes
ByteSlices == {<<>>, <<25>>, <<255, 255>>, <<0, 0, 1>>, <<1, 2, 3, 4>>, <<0, 0, 0, 128>>}
\* the parts a caller writes byte slices to: the immediates, and a name the
\* layout does not have
SliceParts(name) ==
    {get_all_instruction_layouts[name].layout[k].name :
        k \in {j \in DOMAIN get_all_instruction_layouts[name].layout :
                  get_all_instruction_layouts[name].layout[j].layout_type = "Immediate"}}
    \cup {"no such part"}

\* a write made into the encoder: encode(part, value) or encode_bytes(part, slice),
\* and its number among the writes made to that part
ScalarWrite(part, value, nth) ==
    [part |-> part, bytes |-> FALSE, value |-> value, slice |-> <<>>, nth |-> nth]
SliceWrite(part, slice, nth) ==
    [part |-> part, bytes |-> TRUE, value |-> Zero32, slice |-> slice, nth |-> nth]
WrittenParts == {w.part : w \in written}
WritesTo(part) == {w \in written : w.part = part}
\* most writes made to one encoder
MaxWrites == 2

NoEnc == [layout |-> "", current |-> Zero32]

\* no single call is made
NoCall == [op |-> "none"]
IdleCalls ==
    /\ invoked = NoCall
    /\ outcome = NoCall

IdleSem ==
    /\ unit = <<>>
    /\ mir = <<>>
    /\ initial_mir = <<>>
    /\ after_make_declarations_mir = <<>>
    /\ globals = <<>>
    /\ stage = "idle"
    /\ failure = ""

\* most assembly instructions in one call of encode_asm
MaxAsm == 2
\* bytes of a StackOffset: 0, a value below 2^27, 2^27 - 1, 2^27, a value
\* above it, and 2^31 - 1
AsmBytes == {0, 12347, 2 ^ 27 - 1, 2 ^ 27, 2 ^ 27 + 5, 2 ^ 30 + (2 ^ 30 - 1)}
AsmInstructions == {AsmStackOffset(b) : b \in AsmBytes} \cup {AsmOther(v) : v \in {"a", "b"}}
AsmCalls ==
    {[op |-> "encode_asm", code |-> code] :
        code \in UNION {[1 .. n -> AsmInstructions] : n \in 0 .. MaxAsm}}

InitCodec ==
    /\ cmode \in {"instr", "word", "parts", "asm"}
    /\ overflow_checks \in BOOLEAN
    /\ ins \in (IF cmode = "instr" THEN Instructions ELSE {NoIns})
    /\ enc = NoEnc
    /\ written = {}
    /\ word \in (IF cmode = "word" THEN Words ELSE {Zero32})
    /\ decoded = NoIns
    /\ reencoded = Zero32
    /\ cpc = IF cmode = "word" THEN "encoded" ELSE "start"
    /\ fatal = ""
    /\ IdleSem
    /\ invoked \in (IF cmode = "asm" THEN AsmCalls ELSE {NoCall})
    /\ outcome = NoCall

\* LayoutHelper::encode_instruction(&ins)
EncodeInstruction ==
    /\ cmode = "instr" /\ cpc = "start"
    /\ LET r == encode_instruction(ins, overflow_checks)
       IN  /\ cpc' = IF r.panic THEN "encode_panicked" ELSE "encoded"
           /\ fatal' = r.msg
           /\ word' = IF r.panic THEN word ELSE r.enc.current
    /\ UNCHANGED <<cmode, overflow_checks, ins, enc, written, decoded, reencoded>>
    /\ UNCHANGED sem_vars
    /\ UNCHANGED call_vars

\* LayoutHelper::begin_encode(name)
BeginEncode ==
    /\ cmode = "parts" /\ cpc = "start"
    /\ \E name \in LayoutNames \cup {"no such layout"} :
         LET r == begin_encode(name)
         IN  /\ cpc' = IF r.panic THEN "encode_panicked" ELSE "encoding"
             /\ fatal' = r.msg
             /\ enc' = r.enc
    /\ UNCHANGED <<cmode, overflow_checks, ins, written, word, decoded, reencoded>>
    /\ UNCHANGED sem_vars
    /\ UNCHANGED call_vars

\* InstructionEncoder::encode(part, value), on any part, written before or
\* not, before or after a make
Encode ==
    /\ cmode = "parts" /\ cpc \in {"encoding", "encoded"}
    /\ Cardinality(written) < MaxWrites
    /\ \E part \in PartNames(enc.layout) :
         \E v \in PartValues(enc.layout, part) :
           LET r == encode(enc, part, FromNat(v), overflow_checks)
           IN  /\ cpc' = IF r.panic THEN "encode_panicked" ELSE "encoding"
               /\ fatal' = r.msg
               /\ enc' = r.enc
               /\ written' = written \cup {ScalarWrite(part, FromNat(v), Cardinality(WritesTo(part)) + 1)}
    /\ UNCHANGED <<cmode, overflow_checks, ins, word, decoded, reencoded>>
    /\ UNCHANGED sem_vars
    /\ UNCHANGED call_vars

\* InstructionEncoder::encode_bytes(part, slice), on any part, written before
\* or not, before or after a make
EncodeBytes ==
    /\ cmode = "parts" /\ cpc \in {"encoding", "encoded"}
    /\ Cardinality(written) < MaxWrites
    /\ \E part \in SliceParts(enc.layout) :
         \E slice \in ByteSlices :
           LET r == encode_bytes(enc, part, slice, overflow_checks)
           IN  /\ cpc' = IF r.panic THEN "encode_panicked" ELSE "encoding"
               /\ fatal' = r.msg
               /\ enc' = r.enc
               /\ written' = written \cup {SliceWrite(part, slice, Cardinality(WritesTo(part)) + 1)}
    /\ UNCHANGED <<cmode, overflow_checks, ins, word, decoded, reencoded>>
    /\ UNCHANGED sem_vars
    /\ UNCHANGED call_vars

\* InstructionEncoder::make: returns current and leaves the encoder as it is
Make ==
    /\ cmode = "parts" /\ cpc = "encoding"
    /\ word' = enc.current
    /\ cpc' = "encoded"
    /\ UNCHANGED <<cmode, overflow_checks, ins, enc, written, decoded, reencoded, fatal>>
    /\ UNCHANGED sem_vars
    /\ UNCHANGED call_vars

\* LayoutHelper::begin_decode(word).decode()
Decode ==
    /\ cpc = "encoded"
    /\ LET r == begin_decode_decode(word)
       IN  /\ cpc' = IF r.panic THEN "decode_panicked" ELSE "decoded"
           /\ fatal' = r.msg
           /\ decoded' = r.ins
    /\ UNCHANGED <<cmode, overflow_checks, ins, enc, written, word, reencoded>>
    /\ UNCHANGED sem_vars
    /\ UNCHANGED call_vars

\* LayoutHelper::encode_instruction(&decoded)
ReEncode ==
    /\ cpc = "decoded"
    /\ LET r == encode_instruction(decoded, overflow_checks)
       IN  /\ cpc' = IF r.panic THEN "reencode_panicked" ELSE "reencoded"
           /\ fatal' = r.msg
           /\ reencoded' = IF r.panic THEN reencoded ELSE r.enc.current
    /\ UNCHANGED <<cmode, overflow_checks, ins, enc, written, word, decoded>>
    /\ UNCHANGED sem_vars
    /\ UNCHANGED call_vars

\* encode_asm(&code)
EncodeAsm ==
    /\ cmode = "asm" /\ cpc = "start"
    /\ outcome' = [op |-> "returned", words |-> encode_asm(invoked.code)]
    /\ cpc' = "asm_encoded"
    /\ UNCHANGED <<cmode, overflow_checks, ins, enc, written, word, decoded, reencoded, fatal>>
    /\ UNCHANGED invoked
    /\ UNCHANGED sem_vars

NextCodec ==
    EncodeInstruction \/ BeginEncode \/ Encode \/ EncodeBytes \/ Make \/ Decode \/ ReEncode
        \/ EncodeAsm

SpecCodec == InitCodec /\ [][NextCodec]_vars


(***************************************************************************)
(* Properties of the codec                                                 *)
(***************************************************************************)
\* the word of the run has been produced
WordMade == cpc \in {"encoded", "decoded", "decode_panicked", "reencoded", "reencode_panicked"}
\* decode has returned an instruction
HasDecoded == cpc \in {"decoded", "reencoded", "reencode_panicked"}

\* C1: decode after encode is the identity on instructions: every instruction
\* whose field values fit their parts is encoded without a fatal error, and
\* decoding the word returns exactly that instruction without a fatal error.
C1_DecodeEncodeIdentity ==
    (cmode = "instr" /\ Fits(ins)) =>
        /\ cpc \notin {"encode_panicked", "decode_panicked"}
        /\ HasDecoded => decoded = ins

\* C2: encode after decode is the identity on words: every word whose top five
\* bits are a pseudo-op of the instruction table (given directly or built part
\* by part with begin_encode / encode / make) decodes without a fatal error and
\* re-encodes to itself.
C2_EncodeDecodeIdentity ==
    (cmode \in {"word", "parts"} /\ WordMade /\ TopBits(word) \in PseudoOps) =>
        /\ cpc \notin {"decode_panicked", "reencode_panicked"}
        /\ cpc = "reencoded" => reencoded = word

\* C10: StackOffset wire format: whatever bytes is, encoding does not fail, the
\* word has pseudo-op 01101 and low 27 bits bytes mod 2^27, and it is the word
\* the free function encode_stackoffset gives; for bytes below 2^27 the low bits
\* are bytes itself and decoding returns StackOffset{bytes}.
C10_StackOffsetWire ==
    (cmode = "instr" /\ ins.op = "StackOffset") =>
        /\ cpc \notin {"encode_panicked", "decode_panicked"}
        /\ WordMade =>
            /\ TopBits(word) = 13
            /\ LowBits(word) = ins.bytes % (2 ^ 27)
            /\ word = encode_stackoffset(FromNat(ins.bytes))
            /\ ins.bytes < 2 ^ 27 => LowBits(word) = ins.bytes
        /\ (HasDecoded /\ ins.bytes < 2 ^ 27) => decoded = ins

\* C10 witness: StackOffset{bytes = 12347} has been encoded and decoded back
C10_Witness ==
    /\ cmode = "instr" /\ cpc = "decoded"
    /\ ins = [op |-> "StackOffset", bytes |-> 12347]
    /\ decoded = ins
    /\ word = U32(13, 12347)


(***************************************************************************)
(* Semantic pipeline: the AST given by the parser                          *)
(***************************************************************************)
\* ast::parser::Expr
IntegerValue(v) == [k |-> "IntegerValue", v |-> v]
\* a float literal: its digits and the number of them after the point
FloatValue(v, decimals) == [k |-> "FloatValue", v |-> v, decimals |-> decimals]
StringValue(s) == [k |-> "StringValue", s |-> s]
BooleanValue(b) == [k |-> "BooleanValue", b |-> b]
NoneValue == [k |-> "None"]
Variable(name) == [k |-> "Variable", name |-> name]
Parenthesized(inner) == [k |-> "Parenthesized", inner |-> inner]
BinaryOperation(lhs, op, rhs) == [k |-> "BinaryOperation", lhs |-> lhs, op |-> op, rhs |-> rhs]
UnaryExpression(op, rhs) == [k |-> "UnaryExpression", op |-> op, rhs |-> rhs]
FunctionCall(fn, args) == [k |-> "FunctionCall", fn |-> fn, args |-> args]
IndexAccess(obj, index) == [k |-> "IndexAccess", obj |-> obj, index |-> index]
MemberAccess(obj, member) == [k |-> "MemberAccess", obj |-> obj, member |-> member]
Array(items) == [k |-> "Array", items |-> items]

\* ast::parser::ASTType and TypedName
ASTSimple(name) == [k |-> "Simple", name |-> name]
ASTGeneric(name, args) == [k |-> "Generic", name |-> name, args |-> args]
TypedName(name, name_type) == [name |-> name, name_type |-> name_type]

\* ast::parser::AST; an Option is a sequence of length 0 or 1
ASTDeclare(var, expression) == [k |-> "Declare", var |-> var, expression |-> expression]
ASTAssign(path, expression) == [k |-> "Assign", path |-> path, expression |-> expression]
ASTDeclareFunction(function_name, parameters, body, return_type) ==
    [k |-> "DeclareFunction", function_name |-> function_name, parameters |-> parameters,
     body |-> body, return_type |-> return_type]
ASTStructDeclaration(struct_name, body) ==
    [k |-> "StructDeclaration", struct_name |-> struct_name, body |-> body]
ASTReturn(value) == [k |-> "Return", value |-> value]
ASTStandaloneExpr(expression) == [k |-> "StandaloneExpr", expression |-> expression]
ASTRoot(nodes) == [k |-> "Root", nodes |-> nodes]

(***************************************************************************)
(* Semantic pipeline: the HIR                                              *)
(***************************************************************************)
\* HIRType (surface syntax) and TypeInstance (resolved)
HIRSimple(name) == [k |-> "Simple", name |-> name]
HIRGeneric(name, args) == [k |-> "Generic", name |-> name, args |-> args]
HIRFunction(args, ret) == [k |-> "Function", args |-> args, ret |-> ret]
Simple(id) == [k |-> "Simple", id |-> id]
Generic(id, args) == [k |-> "Generic", id |-> id, args |-> args]
Function(args, ret) == [k |-> "Function", args |-> args, ret |-> ret]

\* HIRTypeDef, the tri-state type slot
Pending == [d |-> "Pending"]
Unresolved(t) == [d |-> "Unresolved", t |-> t]
Resolved(t) == [d |-> "Resolved", t |-> t]

\* TypedTrivialHIRExpr(TrivialHIRExpr, HIRTypeDef); lowering knows no type
TypedTrivialHIRExpr(e, ty) == [e |-> e, ty |-> ty]
Untyped(e) == TypedTrivialHIRExpr(e, Pending)

\* HIRExpr: operands are typed trivials, ty is the type slot of the node
HTrivial(t) == [k |-> "Trivial", t |-> t]
HBinaryOperation(lhs, op, rhs, ty) ==
    [k |-> "BinaryOperation", lhs |-> lhs, op |-> op, rhs |-> rhs, ty |-> ty]
HFunctionCall(fn, args, ty) == [k |-> "FunctionCall", fn |-> fn, args |-> args, ty |-> ty]
HUnaryExpression(op, rhs, ty) == [k |-> "UnaryExpression", op |-> op, rhs |-> rhs, ty |-> ty]
HMemberAccess(obj, member, ty) == [k |-> "MemberAccess", obj |-> obj, member |-> member, ty |-> ty]
HArray(items, ty) == [k |-> "Array", items |-> items, ty |-> ty]
HCast(inner, typedef) == [k |-> "Cast", inner |-> inner, typedef |-> typedef]

\* HIR statements
HIRTypedBoundName(name, typename) == [name |-> name, typename |-> typename]
HIRDeclare(var, typedef, expression) ==
    [k |-> "Declare", var |-> var, typedef |-> typedef, expression |-> expression]
HIRAssign(path, expression) == [k |-> "Assign", path |-> path, expression |-> expression]
HIRDeclareFunction(function_name, parameters, body, return_type) ==
    [k |-> "DeclareFunction", function_name |-> function_name, parameters |-> parameters,
     body |-> body, return_type |-> return_type]
HIRStructDeclaration(struct_name, body) ==
    [k |-> "StructDeclaration", struct_name |-> struct_name, body |-> body]
HIRFunctionCall(function, args) == [k |-> "FunctionCall", function |-> function, args |-> args]
HIRIf(condition, true_branch, false_branch) ==
    [k |-> "If", condition |-> condition, true_branch |-> true_branch,
     false_branch |-> false_branch]
HIRReturn(expression, ty) == [k |-> "Return", expression |-> expression, ty |-> ty]
EmptyReturn == [k |-> "EmptyReturn"]

\* HIRType::from_ast
RECURSIVE from_ast(_)
from_ast(typ) ==
    IF typ.k = "Simple" THEN HIRSimple(typ.name)
    ELSE HIRGeneric(typ.name, [i \in DOMAIN typ.args |-> from_ast(typ.args[i])])

\* HIRTypeDef::expect_unresolved
expect_unresolved(typedef) ==
    CASE typedef.d = "Pending" ->
           [err |-> "Function parameters must have a type", t |-> HIRSimple("")]
      [] typedef.d = "Unresolved" -> [err |-> "", t |-> typedef.t]
      [] OTHER ->
           [err |-> "Cannot deal with resolved types at this point, this is a bug",
            t |-> HIRSimple("")]

(***************************************************************************)
(* AST -> HIR lowering (semantic/hir.rs).  Every operation returns its     *)
(* result together with err, the panic message ("" when it returned).      *)
(***************************************************************************)
make_intermediary_first(intermediary) == "$" \o ToString(0)
make_intermediary(intermediary) == "$" \o ToString(intermediary)

SanityCheck == "Sanity check: at this point no parenthesized expr should exist"

\* Option<TrivialHIRExpr>: st is "Some", "None", or "Panic" for the sanity check
get_trivial_hir_expr(expr) ==
    CASE expr.k = "IntegerValue" -> [st |-> "Some", e |-> IntegerValue(expr.v)]
      [] expr.k = "FloatValue" -> [st |-> "Some", e |-> FloatValue(expr.v, expr.decimals)]
      [] expr.k = "StringValue" -> [st |-> "Some", e |-> StringValue(expr.s)]
      [] expr.k = "BooleanValue" -> [st |-> "Some", e |-> BooleanValue(expr.b)]
      [] expr.k = "None" -> [st |-> "Some", e |-> NoneValue]
      [] expr.k = "Variable" -> [st |-> "Some", e |-> Variable(expr.name)]
      [] expr.k = "Parenthesized" -> [st |-> "Panic", e |-> NoneValue]
      [] OTHER -> [st |-> "None", e |-> NoneValue]

\* what a check returns: a boolean, or the panic of get_trivial_hir_expr
Checked(v) == [panic |-> FALSE, v |-> v]
CheckPanic == [panic |-> TRUE, msg |-> SanityCheck]

\* return_true_if_non_trivial! on nodes[i..] in turn: true at the first node
\* that is not trivial, the panic at a parenthesized node met before one
RECURSIVE first_non_trivial(_, _)
first_non_trivial(nodes, i) ==
    IF i > Len(nodes) THEN Checked(FALSE)
    ELSE CASE get_trivial_hir_expr(nodes[i]).st = "Panic" -> CheckPanic
           [] get_trivial_hir_expr(nodes[i]).st = "None" -> Checked(TRUE)
           [] OTHER -> first_non_trivial(nodes, i + 1)

non_trivial(expr) == first_non_trivial(<<expr>>, 1)

check_if_reducible(expr) ==
    CASE get_trivial_hir_expr(expr).st = "Panic" -> CheckPanic
      [] get_trivial_hir_expr(expr).st = "Some" -> Checked(FALSE)
      [] expr.k = "FunctionCall" -> first_non_trivial(<<expr.fn>> \o expr.args, 1)
      [] expr.k = "BinaryOperation" -> first_non_trivial(<<expr.lhs, expr.rhs>>, 1)
      [] expr.k = "Array" -> first_non_trivial(expr.items, 1)
      [] expr.k = "IndexAccess" -> Checked(TRUE)
      [] expr.k = "MemberAccess" -> first_non_trivial(<<expr.obj>>, 1)
      [] expr.k = "UnaryExpression" -> first_non_trivial(<<expr.rhs>>, 1)
      [] OTHER -> Checked(TRUE)

\* results of reduce_expr_to_hir_declarations: the final expression, the
\* number of intermediaries used, and accum after the pushes
Reduced(expr, n, accum) == [expr |-> expr, n |-> n, accum |-> accum, err |-> ""]
ReducePanic(accum, msg) ==
    [expr |-> HTrivial(Untyped(NoneValue)), n |-> 0, accum |-> accum, err |-> msg]
UnwrapNone == "called Option::unwrap() on a None value"

\* intermediary += num_interm
advance_keep(intermediary, num_interm) == intermediary
advance(intermediary, num_interm) == intermediary + num_interm

\* the declaration of the synthetic is put before everything emitted so far
finish_prepended(composite, total_used_interm, intermediary, accum, is_reducing) ==
    IF is_reducing
    THEN Reduced(HTrivial(Untyped(Variable(make_intermediary(intermediary)))),
                 total_used_interm + 1,
                 <<HIRDeclare(make_intermediary(intermediary), Pending, composite)>> \o accum)
    ELSE Reduced(composite, total_used_interm, accum)

\* the tail of every composite arm: when reducing, bind the composite to the
\* next synthetic name and return that name
finish(composite, total_used_interm, intermediary, accum, is_reducing) ==
    IF is_reducing
    THEN Reduced(HTrivial(Untyped(Variable(make_intermediary(intermediary)))),
                 total_used_interm + 1,
                 Append(accum, HIRDeclare(make_intermediary(intermediary), Pending, composite)))
    ELSE Reduced(composite, total_used_interm, accum)

\* args.iter().map(|x| get_trivial_hir_expr(x).unwrap())
unwrap_trivials(nodes) ==
    IF first_non_trivial(nodes, 1).panic THEN [err |-> SanityCheck, items |-> <<>>]
    ELSE IF first_non_trivial(nodes, 1).v THEN [err |-> UnwrapNone, items |-> <<>>]
    ELSE [err |-> "",
          items |-> [i \in DOMAIN nodes |-> Untyped(get_trivial_hir_expr(nodes[i]).e)]]

\* the index and the object take each other's place
index_call_swapped(obj_expr, index_expr) ==
    FunctionCall(MemberAccess(index_expr, "__index__"), <<obj_expr>>)
\* as_fcall: obj[index] as the method call obj.__index__(index)
index_call(obj_expr, index_expr) ==
    FunctionCall(MemberAccess(obj_expr, "__index__"), <<index_expr>>)

RECURSIVE reduce_expr_to_hir_declarations(_, _, _, _), reduce_nodes(_, _, _, _, _)

\* the loop over the arguments of a call or the items of an array: each node
\* is reduced with is_reducing = true and must come back trivial
reduce_nodes(nodes, i, intermediary, accum, not_trivial_msg) ==
    IF i > Len(nodes) THEN [items |-> <<>>, n |-> 0, accum |-> accum, err |-> ""]
    ELSE LET r == reduce_expr_to_hir_declarations(nodes[i], intermediary, accum, TRUE)
         IN  IF r.err # ""
             THEN [items |-> <<>>, n |-> 0, accum |-> r.accum, err |-> r.err]
             ELSE IF r.expr.k # "Trivial"
             THEN [items |-> <<>>, n |-> 0, accum |-> r.accum, err |-> not_trivial_msg]
             ELSE LET rest == reduce_nodes(nodes, i + 1, advance(intermediary, r.n),
                                           r.accum, not_trivial_msg)
                  IN  [items |-> <<r.expr.t>> \o rest.items, n |-> r.n + rest.n,
                       accum |-> rest.accum, err |-> rest.err]

reduce_expr_to_hir_declarations(expr, intermediary, accum, is_reducing) ==
    LET trivial_expr == get_trivial_hir_expr(expr)
    IN
    CASE trivial_expr.st = "Some" -> Reduced(HTrivial(Untyped(trivial_expr.e)), 0, accum)
      [] trivial_expr.st = "Panic" ->
           ReducePanic(accum, SanityCheck)
      [] expr.k = "FunctionCall" ->
           IF check_if_reducible(expr).panic
           THEN ReducePanic(accum, check_if_reducible(expr).msg)
           ELSE IF check_if_reducible(expr).v
           THEN LET lhs == reduce_expr_to_hir_declarations(expr.fn, intermediary, accum, TRUE)
                    args == reduce_nodes(expr.args, 1, advance(intermediary, lhs.n), lhs.accum,
                        "Function call expression: after reduction, argument should be trivial!")
                IN  IF lhs.err # "" THEN ReducePanic(lhs.accum, lhs.err)
                    ELSE IF args.err # "" THEN ReducePanic(args.accum, args.err)
                    ELSE IF lhs.expr.k # "Trivial"
                    THEN ReducePanic(args.accum,
                                     "Function call expression: should be bound to a name!")
                    ELSE finish(HFunctionCall(lhs.expr.t, args.items, Pending),
                                lhs.n + args.n,
                                advance(advance(intermediary, lhs.n), args.n),
                                args.accum, is_reducing)
           ELSE LET args == unwrap_trivials(expr.args)
                    fn == unwrap_trivials(<<expr.fn>>)
                IN  IF args.err # "" THEN ReducePanic(accum, args.err)
                    ELSE IF fn.err # "" THEN ReducePanic(accum, fn.err)
                    ELSE finish(HFunctionCall(fn.items[1], args.items, Pending),
                                0, intermediary, accum, is_reducing)
      [] expr.k = "BinaryOperation" ->
           IF check_if_reducible(expr).panic
           THEN ReducePanic(accum, check_if_reducible(expr).msg)
           ELSE IF check_if_reducible(expr).v
           THEN LET lhs == reduce_expr_to_hir_declarations(expr.lhs, intermediary, accum, TRUE)
                    rhs == reduce_expr_to_hir_declarations(
                               expr.rhs, advance(intermediary, lhs.n), lhs.accum, TRUE)
                IN  IF lhs.err # "" THEN ReducePanic(lhs.accum, lhs.err)
                    ELSE IF rhs.err # "" THEN ReducePanic(rhs.accum, rhs.err)
                    ELSE IF lhs.expr.k # "Trivial" \/ rhs.expr.k # "Trivial"
                    THEN ReducePanic(rhs.accum, "Expression is not trivial")
                    ELSE finish(HBinaryOperation(lhs.expr.t, expr.op, rhs.expr.t, Pending),
                                lhs.n + rhs.n,
                                advance(advance(intermediary, lhs.n), rhs.n),
                                rhs.accum, is_reducing)
           ELSE LET ops == unwrap_trivials(<<expr.lhs, expr.rhs>>)
                IN  IF ops.err # "" THEN ReducePanic(accum, ops.err)
                    ELSE finish(HBinaryOperation(ops.items[1], expr.op, ops.items[2], Pending),
                                0, intermediary, accum, is_reducing)
      [] expr.k = "Array" ->
           IF check_if_reducible(expr).panic
           THEN ReducePanic(accum, check_if_reducible(expr).msg)
           ELSE IF check_if_reducible(expr).v
           THEN LET items == reduce_nodes(expr.items, 1, intermediary, accum,
                        "Array expression item: after reduction, argument should be trivial!")
                IN  IF items.err # "" THEN ReducePanic(items.accum, items.err)
                    ELSE finish(HArray(items.items, Pending), items.n,
                                advance(intermediary, items.n), items.accum, is_reducing)
           ELSE LET items == unwrap_trivials(expr.items)
                IN  IF items.err # "" THEN ReducePanic(accum, items.err)
                    ELSE finish(HArray(items.items, Pending), 0, intermediary, accum,
                                is_reducing)
      [] expr.k = "IndexAccess" ->
           reduce_expr_to_hir_declarations(index_call(expr.obj, expr.index),
                                           intermediary, accum, is_reducing)
      [] expr.k = "UnaryExpression" ->
           IF check_if_reducible(expr).panic
           THEN ReducePanic(accum, check_if_reducible(expr).msg)
           ELSE IF check_if_reducible(expr).v
           THEN LET rhs == reduce_expr_to_hir_declarations(expr.rhs, intermediary, accum, TRUE)
                IN  IF rhs.err # "" THEN ReducePanic(rhs.accum, rhs.err)
                    ELSE IF rhs.expr.k # "Trivial"
                    THEN ReducePanic(rhs.accum, "Expression is not trivial")
                    ELSE finish(HUnaryExpression(expr.op, rhs.expr.t, Pending), rhs.n,
                                advance(intermediary, rhs.n), rhs.accum, is_reducing)
           ELSE LET ops == unwrap_trivials(<<expr.rhs>>)
                IN  IF ops.err # "" THEN ReducePanic(accum, ops.err)
                    ELSE finish(HUnaryExpression(expr.op, ops.items[1], Pending),
                                0, intermediary, accum, is_reducing)
      [] expr.k = "MemberAccess" ->
           IF check_if_reducible(expr.obj).panic
           THEN ReducePanic(accum, check_if_reducible(expr.obj).msg)
           ELSE IF check_if_reducible(expr.obj).v
           THEN LET obj == reduce_expr_to_hir_declarations(expr.obj, intermediary, accum, TRUE)
                IN  IF obj.err # "" THEN ReducePanic(obj.accum, obj.err)
                    ELSE IF obj.expr.k # "Trivial"
                    THEN ReducePanic(obj.accum, "Expression is not trivial")
                    ELSE finish(HMemberAccess(obj.expr.t, expr.member, Pending), obj.n,
                                advance(intermediary, obj.n), obj.accum, is_reducing)
           ELSE LET ops == unwrap_trivials(<<expr.obj>>)
                IN  IF ops.err # "" THEN ReducePanic(accum, ops.err)
                    ELSE finish(HMemberAccess(ops.items[1], expr.member, Pending),
                                0, intermediary, accum, is_reducing)
      [] OTHER -> ReducePanic(accum, "Expr to HIR not implemented")

\* results of ast_to_hir: the number of intermediaries created and accum
Lowered(n, accum) == [n |-> n, accum |-> accum, err |-> ""]
LowerPanic(accum, msg) == [n |-> 0, accum |-> accum, err |-> msg]

\* the intermediaries of the body are reported to the caller of the function
created_by_function_escapes(created) == created
\* return 0: the intermediaries of a function body do not escape the function
created_by_function(created) == 0

RECURSIVE ast_to_hir(_, _, _), lower_nodes(_, _, _, _)

\* for node in nodes { created = ast_to_hir(node, intermediary, accum);
\*                     intermediary += created }, with the sum of created
lower_nodes(nodes, i, intermediary, accum) ==
    IF i > Len(nodes) THEN Lowered(0, accum)
    ELSE LET r == ast_to_hir(nodes[i], intermediary, accum)
         IN  IF r.err # "" THEN r
             ELSE LET rest == lower_nodes(nodes, i + 1, advance(intermediary, r.n), r.accum)
                  IN  [n |-> r.n + rest.n, accum |-> rest.accum, err |-> rest.err]

ast_to_hir(ast, intermediary, accum) ==
    LET declare(r) ==
            IF r.err # "" THEN LowerPanic(r.accum, r.err)
            ELSE Lowered(r.n, Append(r.accum,
                     HIRDeclare(ast.var.name, Unresolved(from_ast(ast.var.name_type)),
                                r.expr)))
        assign(r) ==
            IF r.err # "" THEN LowerPanic(r.accum, r.err)
            ELSE Lowered(r.n, Append(r.accum, HIRAssign(ast.path, r.expr)))
        \* the body is lowered into a fresh accumulator and the function
        \* reports no intermediaries to its caller
        declare_function(function_body) ==
            IF function_body.err # "" THEN LowerPanic(accum, function_body.err)
            ELSE Lowered(created_by_function(function_body.n), Append(accum,
                     HIRDeclareFunction(
                         ast.function_name,
                         [i \in DOMAIN ast.parameters |->
                             HIRTypedBoundName(
                                 ast.parameters[i].name,
                                 Unresolved(from_ast(ast.parameters[i].name_type)))],
                         function_body.accum,
                         IF Len(ast.return_type) = 1
                         THEN Unresolved(from_ast(ast.return_type[1]))
                         ELSE Unresolved(HIRSimple("Void")))))
        return(r) ==
            IF r.err # "" THEN LowerPanic(r.accum, r.err)
            ELSE Lowered(r.n, Append(r.accum, HIRReturn(r.expr, Pending)))
        standalone(r) ==
            IF r.err # "" THEN LowerPanic(r.accum, r.err)
            ELSE IF r.expr.k # "FunctionCall"
            THEN LowerPanic(r.accum, "Lowering of function call returned invalid result")
            ELSE Lowered(r.n, Append(r.accum, HIRFunctionCall(r.expr.fn, r.expr.args)))
    IN
    CASE ast.k = "Declare" ->
           declare(reduce_expr_to_hir_declarations(ast.expression, intermediary, accum, FALSE))
      [] ast.k = "Assign" ->
           assign(reduce_expr_to_hir_declarations(ast.expression, intermediary, accum, FALSE))
      [] ast.k = "DeclareFunction" ->
           declare_function(lower_nodes(ast.body, 1, intermediary, <<>>))
      [] ast.k = "Root" -> lower_nodes(ast.nodes, 1, intermediary, accum)
      [] ast.k = "Return" ->
           IF Len(ast.value) = 0 THEN Lowered(0, Append(accum, EmptyReturn))
           ELSE return(reduce_expr_to_hir_declarations(ast.value[1], intermediary, accum,
                                                       FALSE))
      [] ast.k = "StructDeclaration" ->
           Lowered(0, Append(accum,
               HIRStructDeclaration(
                   ast.struct_name,
                   [i \in DOMAIN ast.body |->
                       HIRTypedBoundName(ast.body[i].name,
                                         Unresolved(from_ast(ast.body[i].name_type)))])))
      [] ast.k = "StandaloneExpr" ->
           IF ast.expression.k # "FunctionCall"
           THEN LowerPanic(accum, "Can only lower function call standalone expr")
           ELSE standalone(reduce_expr_to_hir_declarations(ast.expression, intermediary,
                                                           accum, FALSE))
      [] OTHER -> LowerPanic(accum, "Not implemented HIR")


(***************************************************************************)
(* The type database (semantic/type_db.rs) with its built-in types, and    *)
(* the name registry (semantic/name_registry.rs)                           *)
(***************************************************************************)
\* type_db::Type: a type of a signature, possibly a generic parameter
TypeSimple(id) == [k |-> "Simple", id |-> id]
TypeParameter(name) == [k |-> "GenericParameter", name |-> name]
TypeGeneric(id, args) == [k |-> "Generic", id |-> id, args |-> args]
TypeFunction(args, ret) == [k |-> "Function", args |-> args, ret |-> ret]

\* the built-in types in registration order; a TypeId is a position here
BuiltinTypes == <<"i32", "u32", "f32", "bool", "str", "None", "Void", "array">>
NumericTypes == {"i32", "u32", "f32"}
SignedTypes == {"i32", "f32"}
ArithmeticOperators == {"Plus", "Minus", "Multiply", "Divide"}
SignOperators == {"Plus", "Minus"}

type_exists(name) == \E i \in DOMAIN BuiltinTypes : BuiltinTypes[i] = name
type_id(name) == CHOOSE i \in DOMAIN BuiltinTypes : BuiltinTypes[i] = name
get_name(id) == BuiltinTypes[id]

\* TypeDatabase::find: the record of a type id
find(id) ==
    IF get_name(id) = "array"
    THEN [id |-> id, name |-> "array", type_args |-> <<"TItem">>,
          fields |-> <<[name |-> "length", field_type |-> TypeSimple(type_id("u32"))]>>,
          methods |-> <<[name |-> "__index__", type_args |-> <<>>,
                         args |-> <<TypeSimple(type_id("u32"))>>,
                         return_type |-> TypeParameter("TItem")]>>]
    ELSE [id |-> id, name |-> get_name(id), type_args |-> <<>>, fields |-> <<>>,
          methods |-> <<>>]

\* TypeRecord::as_type
as_type(rec) ==
    IF Len(rec.type_args) = 0 THEN TypeSimple(rec.id)
    ELSE TypeGeneric(rec.id, [i \in DOMAIN rec.type_args |-> TypeParameter(rec.type_args[i])])

\* TypeDatabase::get_binary_operations: the set of <<operator, rhs, result>>
get_binary_operations(t) ==
    IF t.k = "Simple" /\ get_name(t.id) \in NumericTypes
    THEN {<<op, t, t>> : op \in ArithmeticOperators}
    ELSE {}

\* TypeDatabase::get_unary_operations: the set of <<operator, result>>
get_unary_operations(t) ==
    IF t.k = "Simple" /\ get_name(t.id) \in SignedTypes
    THEN {<<op, t>> : op \in SignOperators}
    ELSE {}

\* NameRegistry: a function from names to type slots
NameRegistry_new == [n \in {} |-> Pending]
get_names(registry) == DOMAIN registry
insert(registry, name, typedef) ==
    [n \in DOMAIN registry \cup {name} |-> IF n = name THEN typedef ELSE registry[n]]
include(registry, outer) ==
    [n \in DOMAIN registry \cup DOMAIN outer |-> IF n \in DOMAIN outer THEN outer[n]
                                                  ELSE registry[n]]
\* NameRegistry::get panics on a name it does not hold
get(registry, name) ==
    IF name \in DOMAIN registry THEN [err |-> "", v |-> registry[name]]
    ELSE [err |-> "Could not find a name for " \o name, v |-> Pending]

\* name_registry::build_name_registry: the built-in functions, then one entry
\* per top-level function, as Unresolved(Function(params, return)), and one
\* per top-level struct
RECURSIVE build_name_registry_from(_, _, _)
build_name_registry_from(nodes, i, registry) ==
    IF i > Len(nodes) THEN [err |-> "", registry |-> registry]
    ELSE LET node == nodes[i]
         IN  CASE node.k = "DeclareFunction" ->
                    LET params == [j \in DOMAIN node.parameters |->
                                       expect_unresolved(node.parameters[j].typename)]
                        ret == expect_unresolved(node.return_type)
                    IN  IF \E j \in DOMAIN params : params[j].err # ""
                        THEN [err |-> "Function parameters must have a type",
                              registry |-> registry]
                        ELSE IF ret.err # "" THEN [err |-> ret.err, registry |-> registry]
                        ELSE build_name_registry_from(nodes, i + 1,
                                 insert(registry, node.function_name,
                                        Unresolved(HIRFunction(
                                            [j \in DOMAIN params |-> params[j].t], ret.t))))
               [] node.k = "StructDeclaration" ->
                    build_name_registry_from(nodes, i + 1,
                        insert(registry, node.struct_name,
                               Unresolved(HIRSimple(node.struct_name))))
               [] OTHER -> build_name_registry_from(nodes, i + 1, registry)

\* the functions every program may call without declaring them: print
register_builtins(registry) ==
    insert(registry, "print",
           Resolved(Function(<<Simple(type_id("i32"))>>, Simple(type_id("Void")))))

build_name_registry(nodes) ==
    build_name_registry_from(nodes, 1, register_builtins(NameRegistry_new))

(***************************************************************************)
(* First-assignment promotion (semantic/first_assignments.rs)              *)
(***************************************************************************)
RECURSIVE make_assignments_into_declarations(_, _, _)
\* the forward pass over a body with the set of names declared so far
make_assignments_into_declarations(body, i, declarations_found) ==
    IF i > Len(body) THEN <<>>
    ELSE LET node == body[i]
         IN  CASE node.k = "Assign" /\ Len(node.path) = 1
                    /\ node.path[1] \notin declarations_found ->
                    <<HIRDeclare(node.path[1], Pending, node.expression)>>
                    \o make_assignments_into_declarations(
                           body, i + 1, declarations_found \cup {node.path[1]})
               [] node.k = "Declare" ->
                    <<node>> \o make_assignments_into_declarations(
                                    body, i + 1, declarations_found \cup {node.var})
               [] node.k = "If" ->
                    <<HIRIf(node.condition,
                            make_assignments_into_declarations(node.true_branch, 1,
                                                               declarations_found),
                            make_assignments_into_declarations(node.false_branch, 1,
                                                               declarations_found))>>
                    \o make_assignments_into_declarations(body, i + 1, declarations_found)
               [] OTHER ->
                    <<node>> \o make_assignments_into_declarations(body, i + 1,
                                                                   declarations_found)

transform_first_assignment_into_declaration(nodes) ==
    [i \in DOMAIN nodes |->
        IF nodes[i].k = "DeclareFunction"
        THEN HIRDeclareFunction(
                 nodes[i].function_name, nodes[i].parameters,
                 make_assignments_into_declarations(
                     nodes[i].body, 1,
                     {nodes[i].parameters[j].name : j \in DOMAIN nodes[i].parameters}),
                 nodes[i].return_type)
        ELSE nodes[i]]

(***************************************************************************)
(* The scope and declaration checker (semantic/undeclared_vars.rs).  Each  *)
(* operation returns the panic message, "" when it returned.               *)
(***************************************************************************)
check_trivial_expr(declarations_found, function_name, expr) ==
    IF expr.e.k = "Variable" /\ expr.e.name \notin declarations_found
    THEN "Variable " \o expr.e.name \o " not found, function: " \o function_name
    ELSE ""

\* the first panic of a sequence of checks made in order
RECURSIVE first_error(_, _)
first_error(errors, i) ==
    IF i > Len(errors) THEN ""
    ELSE IF errors[i] # "" THEN errors[i]
    ELSE first_error(errors, i + 1)

check_expr(declarations_found, function_name, expr) ==
    CASE expr.k = "Trivial" -> check_trivial_expr(declarations_found, function_name, expr.t)
      [] expr.k = "BinaryOperation" ->
           first_error(<<check_trivial_expr(declarations_found, function_name, expr.lhs),
                         check_trivial_expr(declarations_found, function_name, expr.rhs)>>, 1)
      [] expr.k = "FunctionCall" ->
           first_error(<<check_trivial_expr(declarations_found, function_name, expr.fn)>>
                       \o [i \in DOMAIN expr.args |->
                              check_trivial_expr(declarations_found, function_name,
                                                 expr.args[i])], 1)
      [] expr.k = "UnaryExpression" ->
           check_trivial_expr(declarations_found, function_name, expr.rhs)
      [] expr.k = "MemberAccess" ->
           check_trivial_expr(declarations_found, function_name, expr.obj)
      [] expr.k = "Array" ->
           first_error([i \in DOMAIN expr.items |->
                           check_trivial_expr(declarations_found, function_name,
                                              expr.items[i])], 1)
      [] OTHER -> check_trivial_expr(declarations_found, function_name, expr.inner)

\* Declare: declarations_found.insert(var) and then check_expr
declare_then_check(declarations_found, function_name, node) ==
    check_expr(declarations_found \cup {node.var}, function_name, node.expression)

\* the last segment of the path is looked up
assign_target_last(path) == path[Len(path)]
\* path.first().unwrap(): the variable an Assign writes to or through
assign_target(path) == path[1]

\* the names declared at the top of a body
DeclaredIn(body) == {body[j].var : j \in {k \in DOMAIN body : body[k].k = "Declare"}}
\* the branches are checked in the scope of the If itself, so what they
\* declare stays in scope after it
scope_after_if_shared(declarations_found, node) ==
    declarations_found \cup DeclaredIn(node.true_branch) \cup DeclaredIn(node.false_branch)
\* each branch is checked with declarations_found.clone(): after the If the
\* scope is what it was before it
scope_after_if(declarations_found, node) == declarations_found

RECURSIVE detect_decl_errors_in_body(_, _, _, _)
detect_decl_errors_in_body(declarations_found, function_name, body, i) ==
    IF i > Len(body) THEN ""
    ELSE LET node == body[i]
             next(found) == detect_decl_errors_in_body(found, function_name, body, i + 1)
         IN  CASE node.k = "Declare" ->
                    IF node.var \in declarations_found
                    THEN "Variable " \o node.var \o " declared more than once"
                    ELSE LET e == declare_then_check(declarations_found, function_name, node)
                         IN  IF e # "" THEN e ELSE next(declarations_found \cup {node.var})
               [] node.k = "Assign" ->
                    IF assign_target(node.path) \notin declarations_found
                    THEN "Assign to undeclared variable " \o assign_target(node.path)
                    ELSE LET e == check_expr(declarations_found, function_name,
                                             node.expression)
                         IN  IF e # "" THEN e ELSE next(declarations_found)
               [] node.k = "FunctionCall" ->
                    LET e == first_error(
                                 <<check_expr(declarations_found, function_name,
                                              HTrivial(node.function))>>
                                 \o [j \in DOMAIN node.args |->
                                        check_expr(declarations_found, function_name,
                                                   HTrivial(node.args[j]))], 1)
                    IN  IF e # "" THEN e ELSE next(declarations_found)
               [] node.k = "Return" ->
                    LET e == check_expr(declarations_found, function_name, node.expression)
                    IN  IF e # "" THEN e ELSE next(declarations_found)
               [] node.k = "If" ->
                    LET t == detect_decl_errors_in_body(declarations_found, function_name,
                                                        node.true_branch, 1)
                        f == detect_decl_errors_in_body(declarations_found, function_name,
                                                        node.false_branch, 1)
                    IN  IF t # "" THEN t ELSE IF f # "" THEN f
                        ELSE next(scope_after_if(declarations_found, node))
               [] OTHER -> next(declarations_found)

\* the parameters are not put in scope
detect_declaration_errors_in_function_without_parameters(declarations_found, function_name, parameters, body) ==
    detect_decl_errors_in_body(declarations_found, function_name, body, 1)
detect_declaration_errors_in_function(declarations_found, function_name, parameters, body) ==
    detect_decl_errors_in_body(
        declarations_found \cup {parameters[j].name : j \in DOMAIN parameters},
        function_name, body, 1)

detect_undeclared_vars_and_redeclarations(registry, nodes) ==
    LET declarations_found ==
            get_names(registry)
            \cup {nodes[i].function_name : i \in {j \in DOMAIN nodes :
                                                    nodes[j].k = "DeclareFunction"}}
    IN  first_error([i \in DOMAIN nodes |->
                        IF nodes[i].k = "DeclareFunction"
                        THEN detect_declaration_errors_in_function(
                                 declarations_found, nodes[i].function_name,
                                 nodes[i].parameters, nodes[i].body)
                        ELSE ""], 1)


(***************************************************************************)
(* Type inference (semantic/type_inference.rs).  Each operation returns    *)
(* its result together with err, the panic message ("" when it returned).  *)
(***************************************************************************)
NoType == Simple(0)
Typed(t) == [err |-> "", t |-> t]
TypePanic(msg) == [err |-> msg, t |-> NoType]

\* the first panic of a sequence of results computed in order
RECURSIVE first_failed(_, _)
first_failed(results, i) ==
    IF i > Len(results) THEN ""
    ELSE IF results[i].err # "" THEN results[i].err
    ELSE first_failed(results, i + 1)

RECURSIVE instantiate_type(_)
instantiate_type(typedef) ==
    CASE typedef.k = "Simple" ->
           IF ~type_exists(typedef.name) THEN TypePanic("Type not found: " \o typedef.name)
           ELSE LET t == as_type(find(type_id(typedef.name)))
                IN  IF t.k = "Simple" THEN Typed(Simple(t.id))
                    ELSE TypePanic("Type in MIR is simple but type is generic")
      [] typedef.k = "Generic" ->
           IF ~type_exists(typedef.name) THEN TypePanic("Type not found: " \o typedef.name)
           ELSE LET args == [i \in DOMAIN typedef.args |-> instantiate_type(typedef.args[i])]
                IN  IF first_failed(args, 1) # "" THEN TypePanic(first_failed(args, 1))
                    ELSE Typed(Generic(type_id(typedef.name),
                                       [i \in DOMAIN args |-> args[i].t]))
      [] OTHER ->
           LET args == [i \in DOMAIN typedef.args |-> instantiate_type(typedef.args[i])]
               ret == instantiate_type(typedef.ret)
           IN  IF first_failed(args, 1) # "" THEN TypePanic(first_failed(args, 1))
               ELSE IF ret.err # "" THEN ret
               ELSE Typed(Function([i \in DOMAIN args |-> args[i].t], ret.t))

\* TypeResolution; object_type_id is an Option (a sequence of length 0 or 1)
TypeResolution(object_type_id, object_instance_generic_args) ==
    [object_type_id |-> object_type_id,
     object_instance_generic_args |-> object_instance_generic_args]

\* the position counted from one
position_from_one(type_args, gen_param) ==
    IF \E i \in DOMAIN type_args : type_args[i] = gen_param
    THEN <<CHOOSE i \in DOMAIN type_args :
              /\ type_args[i] = gen_param
              /\ \A j \in 1 .. i - 1 : type_args[j] # gen_param>>
    ELSE <<>>
\* type_data.type_args.iter().position(|p| *p == *gen_param), from zero
position(type_args, gen_param) ==
    IF \E i \in DOMAIN type_args : type_args[i] = gen_param
    THEN <<(CHOOSE i \in DOMAIN type_args :
               /\ type_args[i] = gen_param
               /\ \A j \in 1 .. i - 1 : type_args[j] # gen_param) - 1>>
    ELSE <<>>

\* object_instance_generic_args.get(index_of)
generic_arg_as_u32(generic_args, index_of) ==
    IF Len(generic_args) > 0 THEN <<Simple(type_id("u32"))>> ELSE <<>>
generic_arg(generic_args, index_of) ==
    IF index_of + 1 \in DOMAIN generic_args THEN <<generic_args[index_of + 1]>> ELSE <<>>

RECURSIVE resolve_type(_, _)
resolve_type(type_partially_filled, type_resolution) ==
    CASE type_partially_filled.k = "Simple" -> Typed(Simple(type_partially_filled.id))
      [] type_partially_filled.k = "GenericParameter" ->
           IF Len(type_resolution.object_type_id) = 0 THEN TypePanic(UnwrapNone)
           ELSE LET type_data == find(type_resolution.object_type_id[1])
                    index_of == position(type_data.type_args, type_partially_filled.name)
                IN  IF Len(index_of) = 0 THEN TypePanic(UnwrapNone)
                    ELSE LET arg == generic_arg(type_resolution.object_instance_generic_args,
                                                index_of[1])
                         IN  IF Len(arg) = 0 THEN TypePanic(UnwrapNone) ELSE Typed(arg[1])
      [] type_partially_filled.k = "Generic" ->
           LET args == [i \in DOMAIN type_partially_filled.args |->
                           resolve_type(type_partially_filled.args[i],
                                        TypeResolution(
                                            <<type_partially_filled.id>>,
                                            type_resolution.object_instance_generic_args))]
           IN  IF first_failed(args, 1) # "" THEN TypePanic(first_failed(args, 1))
               ELSE Typed(Generic(type_partially_filled.id, [i \in DOMAIN args |-> args[i].t]))
      [] OTHER ->
           LET args == [i \in DOMAIN type_partially_filled.args |->
                           resolve_type(type_partially_filled.args[i], type_resolution)]
               ret == resolve_type(type_partially_filled.ret, type_resolution)
           IN  IF first_failed(args, 1) # "" THEN TypePanic(first_failed(args, 1))
               ELSE IF ret.err # "" THEN ret
               ELSE Typed(Function([i \in DOMAIN args |-> args[i].t], ret.t))

\* results of compute_and_infer_expr_type: the rewritten expression and its type
Inferred(expr, t) == [err |-> "", expr |-> expr, t |-> t]
InferPanic(msg) == [err |-> msg, expr |-> HTrivial(Untyped(NoneValue)), t |-> NoType]
StillPending(var) ==
    "Expr type inference bug: tried to resolve a type of variable " \o var
    \o " in expression, but variable still needs type inference. If the variable was declared before, it should have been inferred before."
\* the message ends with the Debug rendering of the unresolved type, left out
StillUnresolved(var) ==
    "Expr type inference bug: Variable " \o var \o " still has unresolved type"

\* the arms for HIRExpr::Trivial
infer_trivial(decls_in_scope, trivial) ==
    IF trivial.e.k = "Variable"
    THEN LET typed_as(instantiated_type) ==
                 IF instantiated_type.err # "" THEN InferPanic(instantiated_type.err)
                 ELSE Inferred(HTrivial(TypedTrivialHIRExpr(
                                   Variable(trivial.e.name),
                                   Resolved(instantiated_type.t))),
                               instantiated_type.t)
             looked_up(found) ==
                 CASE found.err # "" -> InferPanic(found.err)
                   [] found.v.d = "Pending" -> InferPanic(StillPending(trivial.e.name))
                   [] found.v.d = "Unresolved" -> typed_as(instantiate_type(found.v.t))
                   [] OTHER -> typed_as(Typed(found.v.t))
         IN  looked_up(get(decls_in_scope, trivial.e.name))
    ELSE LET typename == CASE trivial.e.k = "IntegerValue" -> "i32"
                           [] trivial.e.k = "FloatValue" -> "f32"
                           [] trivial.e.k = "StringValue" -> "str"
                           [] trivial.e.k = "BooleanValue" -> "bool"
                           [] OTHER -> "None"
             typed_as(type_instance) ==
                 Inferred(HTrivial(TypedTrivialHIRExpr(trivial.e, Resolved(type_instance))),
                          type_instance)
         IN  typed_as(Simple(type_id(typename)))

\* the typed operands of a node, inferred in order
infer_trivials(decls_in_scope, trivials) ==
    LET collected(results) ==
            [err |-> first_failed(results, 1),
             items |-> [i \in DOMAIN results |-> results[i].expr.t]]
    IN  collected([i \in DOMAIN trivials |-> infer_trivial(decls_in_scope, trivials[i])])

\* the methods, then the fields, of a type record searched by name
find_member(members, name) ==
    IF \E i \in DOMAIN members : members[i].name = name
    THEN <<members[CHOOSE i \in DOMAIN members :
                       /\ members[i].name = name
                       /\ \A j \in 1 .. i - 1 : members[j].name # name]>>
    ELSE <<>>

call_type_arity_checked(callee, fun_params) ==
    IF Len(fun_params) = Len(callee.args) THEN callee.ret ELSE NoType
\* the type of a call: the return type of the callee, whatever the arguments
call_type(callee, fun_params) == callee.ret

compute_and_infer_expr_type(decls_in_scope, expression, type_hint) ==
    LET binary(lhs, rhs) ==
            LET found(matching) ==
                    IF matching = {}
                    THEN InferPanic("Could not find implementation for operator")
                    ELSE LET typed_as(result_type) ==
                                 Inferred(HBinaryOperation(lhs.expr.t, expression.op,
                                                           rhs.expr.t, Resolved(result_type)),
                                          result_type)
                         IN  typed_as((CHOOSE o \in matching : TRUE)[3])
            IN  IF lhs.err # "" THEN InferPanic(lhs.err)
                ELSE IF rhs.err # "" THEN InferPanic(rhs.err)
                ELSE IF lhs.t.k = "Function" \/ rhs.t.k = "Function"
                THEN InferPanic("Cannot apply binary operation to function")
                ELSE found({o \in get_binary_operations(lhs.t) :
                               o[1] = expression.op /\ o[2] = rhs.t})
        \* the arguments are a lazy iterator, collected only when the callee
        \* is a resolved function
        call(found, fun_params) ==
            CASE found.err # "" -> InferPanic(found.err)
              [] found.v.d = "Pending" -> InferPanic(StillPending(expression.fn.e.name))
              [] found.v.d = "Unresolved" -> InferPanic(StillUnresolved(expression.fn.e.name))
              [] found.v.t.k = "Simple" ->
                   InferPanic("Tried to resolve the return type of a function call, but the bound variable is not a function!")
              [] found.v.t.k = "Generic" ->
                   InferPanic("Tried to resolve the return type of a function call, but the bound variable is a generic type!")
              [] OTHER ->
                   IF fun_params.err # "" THEN InferPanic(fun_params.err)
                   ELSE Inferred(HFunctionCall(
                                     TypedTrivialHIRExpr(Variable(expression.fn.e.name),
                                                         Resolved(found.v.t)),
                                     fun_params.items,
                                     Resolved(call_type(found.v.t, fun_params.items))),
                                 call_type(found.v.t, fun_params.items))
        unary(rhs) ==
            LET found(matching) ==
                    IF matching = {}
                    THEN InferPanic("Could not determine type of expression")
                    ELSE LET typed_as(result_type) ==
                                 Inferred(HUnaryExpression(expression.op, rhs.expr.t,
                                                           Resolved(result_type)),
                                          result_type)
                         IN  typed_as((CHOOSE o \in matching : TRUE)[2])
            IN  IF rhs.err # "" THEN InferPanic(rhs.err)
                ELSE IF rhs.t.k = "Function"
                THEN InferPanic("Cannot apply unary operation to function")
                ELSE found({o \in get_unary_operations(rhs.t) : o[1] = expression.op})
        member(obj) ==
            LET as_method(results, return_type) ==
                    IF first_failed(results, 1) # ""
                    THEN InferPanic(first_failed(results, 1))
                    ELSE IF return_type.err # "" THEN InferPanic(return_type.err)
                    ELSE LET typed_as(fn) ==
                                 Inferred(HMemberAccess(obj.expr.t, expression.member,
                                                        Resolved(fn)), fn)
                         IN  typed_as(Function([i \in DOMAIN results |-> results[i].t],
                                               return_type.t))
                as_field(resolved_type) ==
                    IF resolved_type.err # "" THEN InferPanic(resolved_type.err)
                    ELSE Inferred(HMemberAccess(obj.expr.t, expression.member,
                                                Resolved(resolved_type.t)),
                                  resolved_type.t)
                of_type(type_data, method, field, resolution) ==
                    IF Len(method) = 1
                    THEN IF Len(method[1].type_args) # 0
                         THEN InferPanic("Function type args not supported yet")
                         ELSE as_method([i \in DOMAIN method[1].args |->
                                            resolve_type(method[1].args[i], resolution)],
                                        resolve_type(method[1].return_type, resolution))
                    ELSE IF Len(field) = 1
                    THEN as_field(resolve_type(field[1].field_type, resolution))
                    ELSE InferPanic("Could not find member " \o expression.member
                                    \o " on type " \o type_data.name)
                of_record(type_data, generics) ==
                    of_type(type_data,
                            find_member(type_data.methods, expression.member),
                            find_member(type_data.fields, expression.member),
                            TypeResolution(<<obj.t.id>>, generics))
            IN  IF obj.err # "" THEN InferPanic(obj.err)
                ELSE IF obj.t.k = "Function"
                THEN InferPanic("Member access on functions isn't defined, maybe we could have cool things in the future, like some metaprogramming/run time type info stuff")
                ELSE of_record(find(obj.t.id),
                               IF obj.t.k = "Generic" THEN obj.t.args ELSE <<>>)
        array(items_typed) ==
            IF items_typed.err # "" THEN InferPanic(items_typed.err)
            ELSE LET typed_as(array_type) ==
                         Inferred(HArray(items_typed.items, Resolved(array_type)), array_type)
                 IN  typed_as(Generic(type_id("array"), <<items_typed.items[1].ty.t>>))
        empty_array(array_type) == Inferred(HArray(<<>>, Resolved(array_type)), array_type)
    IN
    CASE expression.k = "Trivial" -> infer_trivial(decls_in_scope, expression.t)
      [] expression.k = "BinaryOperation" ->
           binary(infer_trivial(decls_in_scope, expression.lhs),
                  infer_trivial(decls_in_scope, expression.rhs))
      [] expression.k = "FunctionCall" ->
           IF expression.fn.e.k # "Variable"
           THEN InferPanic("Function should be bound to a name! This bug reached the type inference code, maybe this should be expanded to support new language features")
           ELSE call(get(decls_in_scope, expression.fn.e.name),
                     infer_trivials(decls_in_scope, expression.args))
      [] expression.k = "UnaryExpression" ->
           unary(infer_trivial(decls_in_scope, expression.rhs))
      [] expression.k = "MemberAccess" ->
           member(infer_trivial(decls_in_scope, expression.obj))
      [] expression.k = "Array" ->
           IF Len(expression.items) = 0 /\ Len(type_hint) = 0
           THEN InferPanic("Could not infer type of array declaration: no items were found, no type hint was given")
           ELSE IF Len(expression.items) > 0
           THEN array(infer_trivials(decls_in_scope, expression.items))
           ELSE empty_array(Generic(type_id("array"), <<type_hint[1]>>))
      [] OTHER -> InferPanic("not yet implemented: Casts haven't been figured out yet")

\* results of infer_types_in_body: the new body, err the panic message
RECURSIVE infer_types_in_body(_, _, _)
infer_types_in_body(decls_in_scope, body, i) ==
    IF i > Len(body) THEN [err |-> "", body |-> <<>>]
    ELSE
    LET node == body[i]
        followed(mir_node, rest) == [err |-> rest.err, body |-> <<mir_node>> \o rest.body]
        then(mir_node, scope) == followed(mir_node, infer_types_in_body(scope, body, i + 1))
        failed(msg) == [err |-> msg, body |-> <<>>]
        instantiated ==
            IF node.typedef.d = "Unresolved" THEN instantiate_type(node.typedef.t)
            ELSE Typed(NoType)
        hint == CASE node.typedef.d = "Pending" -> <<>>
                  [] node.typedef.d = "Unresolved" -> <<instantiated.t>>
                  [] OTHER -> <<node.typedef.t>>
        \* the declared type wins over the inferred one in the Declare, the
        \* inferred one is what the scope records
        declared(r) ==
            IF r.err # "" THEN failed(r.err)
            ELSE then(HIRDeclare(node.var,
                                 Resolved(IF Len(hint) = 1 THEN hint[1] ELSE r.t),
                                 r.expr),
                      insert(decls_in_scope, node.var, Resolved(r.t)))
        assigned(r) ==
            IF r.err # "" THEN failed(r.err)
            ELSE then(HIRAssign(node.path, r.expr), decls_in_scope)
        \* the callee is cloned, only the arguments are inferred
        called(args) ==
            IF args.err # "" THEN failed(args.err)
            ELSE then(HIRFunctionCall(node.function, args.items), decls_in_scope)
        branched(true_branch_inferred, false_branch_inferred, condition_expr) ==
            IF true_branch_inferred.err # "" THEN failed(true_branch_inferred.err)
            ELSE IF false_branch_inferred.err # "" THEN failed(false_branch_inferred.err)
            ELSE IF condition_expr.err # "" THEN failed(condition_expr.err)
            ELSE then(HIRIf(condition_expr.expr.t, true_branch_inferred.body,
                            false_branch_inferred.body),
                      decls_in_scope)
        returned(r) ==
            IF r.err # "" THEN failed(r.err)
            ELSE then(HIRReturn(r.expr, Resolved(r.t)), decls_in_scope)
    IN
    CASE node.k = "Declare" ->
           IF instantiated.err # "" THEN failed(instantiated.err)
           ELSE declared(compute_and_infer_expr_type(decls_in_scope, node.expression, hint))
      [] node.k = "Assign" ->
           assigned(compute_and_infer_expr_type(decls_in_scope, node.expression, <<>>))
      [] node.k = "FunctionCall" -> called(infer_trivials(decls_in_scope, node.args))
      [] node.k = "If" ->
           branched(infer_types_in_body(decls_in_scope, node.true_branch, 1),
                    infer_types_in_body(decls_in_scope, node.false_branch, 1),
                    infer_trivial(decls_in_scope, node.condition))
      [] node.k = "Return" ->
           returned(compute_and_infer_expr_type(decls_in_scope, node.expression, <<>>))
      [] OTHER -> then(node, decls_in_scope)

infer_variable_types_in_functions(registry, parameters, body) ==
    LET RECURSIVE with_parameters(_, _)
        with_parameters(scope, j) ==
            IF j > Len(parameters) THEN scope
            ELSE with_parameters(insert(scope, parameters[j].name, parameters[j].typename),
                                 j + 1)
    IN  infer_types_in_body(include(with_parameters(NameRegistry_new, 1), registry), body, 1)

infer_function_parameter_types_and_return(parameters, return_type) ==
    LET resolve(typedef) ==
            CASE typedef.d = "Pending" ->
                   TypePanic("Function parameters cannot have type inference")
              [] typedef.d = "Unresolved" -> instantiate_type(typedef.t)
              [] OTHER -> Typed(typedef.t)
        resolved(new_args, instance) ==
            IF first_failed(new_args, 1) # ""
            THEN [err |-> first_failed(new_args, 1), parameters |-> <<>>, ret |-> NoType]
            ELSE IF instance.err # ""
            THEN [err |-> instance.err, parameters |-> <<>>, ret |-> NoType]
            ELSE [err |-> "",
                  parameters |-> [j \in DOMAIN parameters |->
                                     HIRTypedBoundName(parameters[j].name,
                                                       Resolved(new_args[j].t))],
                  ret |-> instance.t]
    IN  resolved([j \in DOMAIN parameters |-> resolve(parameters[j].typename)],
                 resolve(return_type))

\* results of infer_types: the new HIR and the globals after the inserts
RECURSIVE infer_types_from(_, _, _)
infer_types_from(registry, nodes, i) ==
    IF i > Len(nodes) THEN [err |-> "", mir |-> <<>>, globals |-> registry]
    ELSE
    LET node == nodes[i]
        followed(mir_node, rest) ==
            [err |-> rest.err, mir |-> <<mir_node>> \o rest.mir, globals |-> rest.globals]
        sig == infer_function_parameter_types_and_return(node.parameters, node.return_type)
        \* globals.insert before the body is inferred: calls from later
        \* functions and recursion
        published ==
            insert(registry, node.function_name,
                   Resolved(Function([j \in DOMAIN sig.parameters |->
                                         sig.parameters[j].typename.t], sig.ret)))
        inferred(new_body) ==
            IF new_body.err # ""
            THEN [err |-> new_body.err, mir |-> <<>>, globals |-> published]
            ELSE followed(HIRDeclareFunction(node.function_name, sig.parameters,
                                             new_body.body, Resolved(sig.ret)),
                          infer_types_from(published, nodes, i + 1))
    IN
    IF node.k = "DeclareFunction"
    THEN IF sig.err # "" THEN [err |-> sig.err, mir |-> <<>>, globals |-> registry]
         ELSE inferred(infer_variable_types_in_functions(published, node.parameters,
                                                         node.body))
    ELSE followed(node, infer_types_from(registry, nodes, i + 1))

infer_types_after_first(registry, nodes) == infer_types_from(registry, nodes, 2)
infer_types(registry, nodes) == infer_types_from(registry, nodes, 1)


(***************************************************************************)
(* The compilation units given to do_analysis                              *)
(***************************************************************************)
\* longest argument list of a call and longest array literal
MaxArgs == 2
\* most statements in the body of main
MaxBody == 2

i32 == ASTSimple("i32")
ArrayOf(item) == ASTGeneric("array", <<item>>)
\* element types T of the parameter a: array<T> of main
ElementTypes == {i32, ASTSimple("str"), ArrayOf(i32)}

\* non-empty lists of at most MaxArgs elements of S
ArgLists(S) == UNION {[1 .. n -> S] : n \in 1 .. MaxArgs}

\* expressions over the parameters x and a of main, the name y that main
\* may or may not have declared, and the functions f and main; print is
\* called as a statement
Leaves == {IntegerValue(1), FloatValue(15, 1), Variable("x"), Variable("y")}
Calls == {FunctionCall(Variable(g), args) : g \in {"f", "main"}, args \in ArgLists({Variable("x")})}
Flat ==
    {BinaryOperation(l, "Plus", IntegerValue(1)) : l \in {Variable("x"), Variable("y")}}
    \cup {UnaryExpression("Minus", Variable("x"))}
    \cup Calls
    \cup {IndexAccess(Variable("a"), i) :
            i \in {IntegerValue(0), BinaryOperation(Variable("x"), "Plus", IntegerValue(1))}}
    \cup {MemberAccess(Variable("a"), m) : m \in {"length", "size"}}
    \cup {Array(items) : items \in ArgLists({IntegerValue(1)}) \cup {<<>>}}
\* one composite of each kind, to stand as a child of another composite
Inner ==
    {BinaryOperation(Variable("x"), "Plus", IntegerValue(1)),
     UnaryExpression("Minus", Variable("x")),
     FunctionCall(Variable("f"), <<Variable("x")>>),
     IndexAccess(Variable("a"), IntegerValue(0)),
     MemberAccess(Variable("a"), "length"),
     Array(<<IntegerValue(1)>>)}
Nested ==
    {MemberAccess(c, "length") : c \in Inner}
    \cup {IndexAccess(c, IntegerValue(0)) : c \in Inner}
    \cup {UnaryExpression("Minus", c) : c \in Inner}
    \cup {FunctionCall(Variable("f"), <<c>>) : c \in Inner}
    \cup {FunctionCall(c, <<Variable("x")>>) : c \in Inner}
    \cup {BinaryOperation(c, "Divide", d) :
            c \in Inner, d \in {IntegerValue(1), BinaryOperation(Variable("x"), "Minus", IntegerValue(1))}}
    \cup {Array(<<c, IntegerValue(1)>>) : c \in Inner}
Deep == {BinaryOperation(Variable("x"), "Plus", n) : n \in Nested}
Exprs == Leaves \cup Flat \cup Nested \cup Deep

\* the statements of main
Statements ==
    {ASTAssign(<<"y">>, e) : e \in Exprs}
    \cup {ASTReturn(<<e>>) : e \in Leaves \cup Flat \cup Nested}
    \cup {ASTReturn(<<>>)}
    \cup {ASTDeclare(TypedName("y", i32), e) : e \in Leaves \cup Flat}
    \cup {ASTStandaloneExpr(e) : e \in Calls \cup {c \in Nested : c.k = "FunctionCall"}
                                     \cup {Variable("x")}}
    \cup {ASTStandaloneExpr(FunctionCall(Variable("print"), <<e>>)) :
             e \in {IntegerValue(1), Variable("y"), IndexAccess(Variable("a"), IntegerValue(0))}}
\* the statements that may come before the last one
Leading ==
    {ASTAssign(<<"y">>, IntegerValue(1)),
     ASTAssign(<<"y">>, IndexAccess(Variable("a"), IntegerValue(0))),
     ASTAssign(<<"z">>, BinaryOperation(
                            BinaryOperation(Variable("x"), "Multiply", Variable("x")),
                            "Divide",
                            BinaryOperation(Variable("x"), "Minus", IntegerValue(1)))),
     ASTStandaloneExpr(FunctionCall(Variable("f"), <<Variable("x")>>))}
Prefixes == UNION {[1 .. n -> Leading] : n \in 0 .. MaxBody - 1}
Bodies == {p \o <<s>> : p \in Prefixes, s \in Statements}

\* def f(p: i32) -> i32: return p
DeclareF ==
    ASTDeclareFunction("f", <<TypedName("p", i32)>>, <<ASTReturn(<<Variable("p")>>)>>, <<i32>>)
\* def main(x: i32, a: array<T>) -> i32: body
DeclareMain(item, body) ==
    ASTDeclareFunction("main", <<TypedName("x", i32), TypedName("a", ArrayOf(item))>>, body,
                       <<i32>>)
\* struct S: field: i32
DeclareS == ASTStructDeclaration("S", <<TypedName("field", i32)>>)

\* the units: f before main and main before f, for every element type and
\* body, and a unit that also declares a struct, for every element type and
\* body of one statement
Units ==
    {ASTRoot(<<DeclareF, DeclareMain(item, body)>>) : item \in ElementTypes, body \in Bodies}
    \cup {ASTRoot(<<DeclareMain(item, body), DeclareF>>) : item \in ElementTypes, body \in Bodies}
    \cup {ASTRoot(<<DeclareS, DeclareF, DeclareMain(item, <<s>>)>>) :
             item \in ElementTypes, s \in Statements}

IdleCodec ==
    /\ cmode = "idle"
    /\ overflow_checks = FALSE
    /\ ins = NoIns
    /\ enc = NoEnc
    /\ written = {}
    /\ word = Zero32
    /\ decoded = NoIns
    /\ reencoded = Zero32
    /\ cpc = "idle"
    /\ fatal = ""

(***************************************************************************)
(* do_analysis (semantic/analysis.rs), one action per pass                 *)
(***************************************************************************)
InitSem ==
    /\ IdleCodec
    /\ IdleCalls
    /\ unit \in Units
    /\ mir = <<>>
    /\ initial_mir = <<>>
    /\ after_make_declarations_mir = <<>>
    /\ globals = NameRegistry_new
    /\ stage = "parsed"
    /\ failure = ""

\* ast_to_hir(ast, 0, &mut mir)
Lower ==
    /\ stage = "parsed"
    /\ \E r \in {ast_to_hir(unit, 0, <<>>)} :
           IF r.err # ""
           THEN /\ stage' = "lowering_failed"
                /\ failure' = r.err
                /\ UNCHANGED <<mir, initial_mir>>
           ELSE /\ stage' = "lowered"
                /\ mir' = r.accum
                /\ initial_mir' = r.accum
                /\ UNCHANGED failure
    /\ UNCHANGED <<unit, after_make_declarations_mir, globals>>
    /\ UNCHANGED codec_vars
    /\ UNCHANGED call_vars

\* name_registry::build_name_registry(&type_db, &mir)
BuildNameRegistry ==
    /\ stage = "lowered"
    /\ \E r \in {build_name_registry(mir)} :
           IF r.err # ""
           THEN /\ stage' = "registry_failed"
                /\ failure' = r.err
                /\ UNCHANGED globals
           ELSE /\ stage' = "registered"
                /\ globals' = r.registry
                /\ UNCHANGED failure
    /\ UNCHANGED <<unit, mir, initial_mir, after_make_declarations_mir>>
    /\ UNCHANGED codec_vars
    /\ UNCHANGED call_vars

\* the HIR the pass returns is not stored into mir
FirstAssignments_result_dropped ==
    /\ stage = "registered"
    /\ mir' = mir
    /\ after_make_declarations_mir' = mir'
    /\ stage' = "promoted"
    /\ UNCHANGED <<unit, initial_mir, globals, failure>>
    /\ UNCHANGED codec_vars
    /\ UNCHANGED call_vars
\* first_assignments::transform_first_assignment_into_declaration(mir)
FirstAssignments ==
    /\ stage = "registered"
    /\ mir' = transform_first_assignment_into_declaration(mir)
    /\ after_make_declarations_mir' = mir'
    /\ stage' = "promoted"
    /\ UNCHANGED <<unit, initial_mir, globals, failure>>
    /\ UNCHANGED codec_vars
    /\ UNCHANGED call_vars

\* do_analysis goes on to type inference whatever the scope checker found
after_scope_check_goes_on(e) == "checked"
\* a panic of the scope checker unwinds do_analysis; it goes on when the
\* checker returns
after_scope_check(e) == IF e # "" THEN "scope_failed" ELSE "checked"

\* undeclared_vars::detect_undeclared_vars_and_redeclarations(&globals, &mir)
ScopeCheck ==
    /\ stage = "promoted"
    /\ \E e \in {detect_undeclared_vars_and_redeclarations(globals, mir)} :
           /\ stage' = after_scope_check(e)
           /\ failure' = e
    /\ UNCHANGED <<unit, mir, initial_mir, after_make_declarations_mir, globals>>
    /\ UNCHANGED codec_vars
    /\ UNCHANGED call_vars

\* type_inference::infer_types(&mut globals, &type_db, mir)
InferTypes ==
    /\ stage = "checked"
    /\ \E r \in {infer_types(globals, mir)} :
           IF r.err # ""
           THEN /\ stage' = "inference_failed"
                /\ failure' = r.err
                /\ UNCHANGED <<mir, globals>>
           ELSE /\ stage' = "inferred"
                /\ mir' = r.mir
                /\ globals' = r.globals
                /\ UNCHANGED failure
    /\ UNCHANGED <<unit, initial_mir, after_make_declarations_mir>>
    /\ UNCHANGED codec_vars
    /\ UNCHANGED call_vars

NextSem == Lower \/ BuildNameRegistry \/ FirstAssignments \/ ScopeCheck \/ InferTypes

SpecSem == InitSem /\ [][NextSem]_vars


(***************************************************************************)
(* The passes after lowering, run on HIR given directly: bodies with If,   *)
(* repeated declarations and assignments through a path                    *)
(***************************************************************************)
\* most statements in the body of main
MaxHirBody == 2

HirOne == HTrivial(Untyped(IntegerValue(1)))
HirI32 == Unresolved(HIRSimple("i32"))
\* y: i32 = 1 for the local y, the parameter x, the function f, the struct S;
\* y = 1, x = 1, y.field = 1; return y; print(1), print(y)
HirAtoms ==
    {HIRDeclare(v, HirI32, HirOne) : v \in {"y", "x", "f", "S"}}
    \cup {HIRAssign(path, HirOne) : path \in {<<"y">>, <<"x">>, <<"y", "field">>}}
    \cup {HIRReturn(HTrivial(Untyped(Variable("y"))), Pending)}
    \cup {HIRFunctionCall(Untyped(Variable("print")), <<Untyped(v)>>) :
             v \in {IntegerValue(1), Variable("y")}}
\* the branches of an If: empty or one statement about y
HirBranches ==
    {<<>>} \cup {<<s>> : s \in {HIRDeclare("y", HirI32, HirOne), HIRAssign(<<"y">>, HirOne),
                               HIRAssign(<<"y", "field">>, HirOne)}}
\* if x: .. else: ..  on the parameter x, and on w, a name declared nowhere
HirIfs ==
    {HIRIf(Untyped(Variable("x")), t, f) : t \in HirBranches, f \in HirBranches}
    \cup {HIRIf(Untyped(Variable("w")), t, <<>>) :
             t \in {<<>>, <<HIRAssign(<<"y">>, HirOne)>>}}
HirStatements == HirAtoms \cup HirIfs
HirBodies == UNION {[1 .. n -> HirStatements] : n \in 0 .. MaxHirBody}

\* struct S: field: i32;  def f(p: i32) -> i32: return p;
\* def main(x: i32) -> i32: body
HirUnits ==
    {<<HIRStructDeclaration("S", <<HIRTypedBoundName("field", HirI32)>>),
       HIRDeclareFunction("f", <<HIRTypedBoundName("p", HirI32)>>,
                          <<HIRReturn(HTrivial(Untyped(Variable("p"))), Pending)>>, HirI32),
       HIRDeclareFunction("main", <<HIRTypedBoundName("x", HirI32)>>, body, HirI32)>> :
        body \in HirBodies}

InitHir ==
    /\ IdleCodec
    /\ IdleCalls
    /\ unit = <<>>
    /\ mir \in HirUnits
    /\ initial_mir = mir
    /\ after_make_declarations_mir = <<>>
    /\ globals = NameRegistry_new
    /\ stage = "lowered"
    /\ failure = ""

\* transform_first_assignment_into_declaration applied to its own output
PromoteAgain ==
    /\ stage = "promoted"
    /\ mir' = transform_first_assignment_into_declaration(mir)
    /\ stage' = "promoted_again"
    /\ UNCHANGED <<unit, initial_mir, after_make_declarations_mir, globals, failure>>
    /\ UNCHANGED codec_vars
    /\ UNCHANGED call_vars

NextHir == BuildNameRegistry \/ FirstAssignments \/ PromoteAgain \/ ScopeCheck \/ InferTypes

SpecHir == InitHir /\ [][NextHir]_vars


(***************************************************************************)
(* A member access, a signature type and a function body typed on their    *)
(* own, over the type database of the built-ins                            *)
(***************************************************************************)
\* the actual type arguments of the objects, the objects, the member names
Actuals == {Simple(type_id("i32")), Simple(type_id("str")),
            Generic(type_id("array"), <<Simple(type_id("i32"))>>)}
Objects == {Generic(type_id("array"), <<a>>) : a \in Actuals}
MemberNames == {"length", "__index__", "size"}
MemberAccesses ==
    {[op |-> "member_access", object |-> o, member |-> m] : o \in Objects, m \in MemberNames}

\* types a signature of array<TItem> may hold: the parameter TItem at top
\* level, inside a Function node, inside a Generic node, and inside both
SignatureTypes ==
    {TypeSimple(type_id("u32")),
     TypeParameter("TItem"),
     TypeGeneric(type_id("array"), <<TypeSimple(type_id("u32"))>>),
     TypeGeneric(type_id("array"), <<TypeParameter("TItem")>>),
     TypeGeneric(type_id("array"),
                 <<TypeGeneric(type_id("array"), <<TypeParameter("TItem")>>)>>),
     TypeFunction(<<TypeSimple(type_id("u32"))>>, TypeParameter("TItem")),
     TypeFunction(<<TypeParameter("TItem"),
                    TypeGeneric(type_id("array"), <<TypeParameter("TItem")>>)>>,
                  TypeGeneric(type_id("array"), <<TypeParameter("TItem")>>)),
     TypeFunction(<<TypeFunction(<<TypeParameter("TItem")>>, TypeSimple(type_id("bool")))>>,
                  TypeSimple(type_id("u32"))),
     TypeGeneric(type_id("array"),
                 <<TypeFunction(<<TypeSimple(type_id("u32"))>>, TypeParameter("TItem"))>>)}
TypeResolutions ==
    {[op |-> "resolve_type", object |-> o, signature_type |-> t] :
        o \in Objects, t \in SignatureTypes}

\* the scope a body is inferred in:  x: i32, s: str, a: array<i32>,
\* f: fn(i32) -> i32,  g: fn() -> str,  h: fn(i32, str) -> array<i32>
TypingScope ==
    [n \in {"x", "s", "a", "f", "g", "h"} |->
        Resolved(CASE n = "x" -> Simple(type_id("i32"))
                   [] n = "s" -> Simple(type_id("str"))
                   [] n = "a" -> Generic(type_id("array"), <<Simple(type_id("i32"))>>)
                   [] n = "f" -> Function(<<Simple(type_id("i32"))>>, Simple(type_id("i32")))
                   [] n = "g" -> Function(<<>>, Simple(type_id("str")))
                   [] OTHER -> Function(<<Simple(type_id("i32")), Simple(type_id("str"))>>,
                                        Generic(type_id("array"), <<Simple(type_id("i32"))>>)))]
\* the annotations of a Declare: none, i32, str, array<i32>, array<str>
TypeHints ==
    {Pending} \cup {Unresolved(t) : t \in {HIRSimple("i32"), HIRSimple("str"),
                                           HIRGeneric("array", <<HIRSimple("i32")>>),
                                           HIRGeneric("array", <<HIRSimple("str")>>)}}
TypedOperands == {Untyped(IntegerValue(1)), Untyped(Variable("x")), Untyped(Variable("s"))}
OperandLists == UNION {[1 .. n -> TypedOperands] : n \in 0 .. MaxArgs}
\* the initializers: literals and variables, array literals of 0 .. MaxArgs
\* items, calls of 0 .. MaxArgs arguments to functions, to variables that
\* are no functions and to a name out of scope
Initializers ==
    {HTrivial(t) : t \in TypedOperands \cup {Untyped(Variable("a")), Untyped(Variable("f"))}}
    \cup {HArray(items, Pending) : items \in OperandLists}
    \cup {HFunctionCall(Untyped(Variable(callee)), args, Pending) :
             callee \in {"f", "g", "h", "x", "a", "w"}, args \in OperandLists}
\* y: hint = initializer;  return y
BodyInferences ==
    {[op |-> "infer_types_in_body",
      body |-> <<HIRDeclare("y", hint, e),
                 HIRReturn(HTrivial(Untyped(Variable("y"))), Pending)>>] :
        hint \in TypeHints, e \in Initializers}

InitTyping ==
    /\ IdleCodec
    /\ IdleSem
    /\ invoked \in MemberAccesses \cup TypeResolutions \cup BodyInferences
    /\ outcome = NoCall

\* infer_types_in_body on a body, in the scope TypingScope
InferBody ==
    /\ invoked.op = "infer_types_in_body" /\ outcome = NoCall
    /\ \E r \in {infer_types_in_body(TypingScope, invoked.body, 1)} :
           outcome' = [op |-> IF r.err = "" THEN "returned" ELSE "panicked",
                       err |-> r.err, body |-> r.body]
    /\ UNCHANGED invoked
    /\ UNCHANGED codec_vars
    /\ UNCHANGED sem_vars

\* compute_and_infer_expr_type on  o.member,  o a variable of the object type
ResolveMember ==
    /\ invoked.op = "member_access" /\ outcome = NoCall
    /\ \E r \in {compute_and_infer_expr_type(
                     insert(NameRegistry_new, "o", Resolved(invoked.object)),
                     HMemberAccess(Untyped(Variable("o")), invoked.member, Pending),
                     <<>>)} :
           outcome' = [op |-> IF r.err = "" THEN "returned" ELSE "panicked",
                       err |-> r.err, t |-> r.t]
    /\ UNCHANGED invoked
    /\ UNCHANGED codec_vars
    /\ UNCHANGED sem_vars

\* resolve_type on a type of a signature, for an object of type array<T>
ResolveType ==
    /\ invoked.op = "resolve_type" /\ outcome = NoCall
    /\ \E r \in {resolve_type(invoked.signature_type,
                               TypeResolution(<<invoked.object.id>>, invoked.object.args))} :
           outcome' = [op |-> IF r.err = "" THEN "returned" ELSE "panicked",
                       err |-> r.err, t |-> r.t]
    /\ UNCHANGED invoked
    /\ UNCHANGED codec_vars
    /\ UNCHANGED sem_vars

NextTyping == ResolveMember \/ ResolveType \/ InferBody

SpecTyping == InitTyping /\ [][NextTyping]_vars


(***************************************************************************)
(* Properties of the semantic pipeline                                     *)
(***************************************************************************)
FailedStages == {"lowering_failed", "registry_failed", "scope_failed", "inference_failed"}
HasLowered == stage \notin {"idle", "parsed", "lowering_failed"}
ScopeChecked == stage \in {"scope_failed", "checked", "inference_failed", "inferred"}
ScopeAccepted == stage \in {"checked", "inference_failed", "inferred"}

FunctionsOf(nodes) == {nodes[i] : i \in {j \in DOMAIN nodes : nodes[j].k = "DeclareFunction"}}
MainOf(nodes) == CHOOSE fn \in FunctionsOf(nodes) : fn.function_name = "main"

\* all statements of a body, those of the branches of an If included
RECURSIVE StatementsOf(_)
StatementsOf(body) ==
    UNION {IF body[i].k = "If"
           THEN {body[i]} \cup StatementsOf(body[i].true_branch)
                          \cup StatementsOf(body[i].false_branch)
           ELSE {body[i]} : i \in DOMAIN body}

\* the typed trivial operands of an HIR expression
OperandsOf(e) ==
    CASE e.k = "Trivial" -> {e.t}
      [] e.k = "BinaryOperation" -> {e.lhs, e.rhs}
      [] e.k = "FunctionCall" -> {e.fn} \cup Range(e.args)
      [] e.k = "UnaryExpression" -> {e.rhs}
      [] e.k = "MemberAccess" -> {e.obj}
      [] e.k = "Array" -> Range(e.items)
      [] OTHER -> {e.inner}
\* the expressions of the statements of a body
ExprsOf(body) ==
    {s.expression : s \in {t \in StatementsOf(body) : t.k \in {"Declare", "Assign", "Return"}}}
TrivialKinds == {"IntegerValue", "FloatValue", "StringValue", "BooleanValue", "None", "Variable"}

\* the expressions of the statements of main in the unit
UnitExprs ==
    LET main == CHOOSE i \in DOMAIN unit.nodes :
                    unit.nodes[i].k = "DeclareFunction" /\ unit.nodes[i].function_name = "main"
        body == unit.nodes[main].body
    IN  {body[i].expression : i \in {j \in DOMAIN body : body[j].k # "Return"}}
        \cup {body[i].value[1] :
                i \in {j \in DOMAIN body : body[j].k = "Return" /\ Len(body[j].value) = 1}}
\* every standalone expression of main is a call
OnlyCallsStandalone ==
    LET main == CHOOSE i \in DOMAIN unit.nodes :
                    unit.nodes[i].k = "DeclareFunction" /\ unit.nodes[i].function_name = "main"
        body == unit.nodes[main].body
    IN  \A i \in DOMAIN body :
            body[i].k = "StandaloneExpr" => body[i].expression.k = "FunctionCall"

\* C3: lowering never fails on a supported expression and yields trivial
\* operands: once ast_to_hir has run on a unit whose standalone statements are
\* calls it has not failed, every operand of every composite expression of the
\* lowered HIR is trivial, and reduce_expr_to_hir_declarations with
\* is_reducing = true returns a trivial expression for every expression of the
\* unit.
C3_LoweringNeverFails ==
    (stage # "parsed" /\ OnlyCallsStandalone) =>
        /\ stage # "lowering_failed"
        /\ \A fn \in FunctionsOf(initial_mir) : \A e \in ExprsOf(fn.body) :
               \A o \in OperandsOf(e) : o.e.k \in TrivialKinds
        /\ \A e \in UnitExprs :
               LET r == reduce_expr_to_hir_declarations(e, 0, <<>>, TRUE)
               IN  r.err = "" /\ r.expr.k = "Trivial"

\* the type slots of an expression, a statement, a top-level node
SlotsOfExpr(e) == {o.ty : o \in OperandsOf(e)} \cup (IF e.k = "Trivial" THEN {} ELSE {e.ty})
SlotsOfStatement(s) ==
    CASE s.k = "Declare" -> {s.typedef} \cup SlotsOfExpr(s.expression)
      [] s.k = "Assign" -> SlotsOfExpr(s.expression)
      [] s.k = "Return" -> {s.ty} \cup SlotsOfExpr(s.expression)
      [] s.k = "FunctionCall" -> {s.function.ty} \cup {s.args[i].ty : i \in DOMAIN s.args}
      [] s.k = "If" -> {s.condition.ty}
      [] OTHER -> {}
SlotsOfNode(node) ==
    CASE node.k = "DeclareFunction" ->
           {node.parameters[i].typename : i \in DOMAIN node.parameters}
           \cup {node.return_type}
           \cup UNION {SlotsOfStatement(s) : s \in StatementsOf(node.body)}
      [] node.k = "StructDeclaration" -> {node.body[i].typename : i \in DOMAIN node.body}
      [] OTHER -> SlotsOfStatement(node)

\* C4: after type inference no reachable type slot is Pending or Unresolved:
\* in the HIR returned by infer_types every type slot of every statement and
\* expression, statement-level calls and struct fields included, is Resolved.
C4_AllSlotsResolved ==
    stage = "inferred" =>
        \A i \in DOMAIN mir : \A slot \in SlotsOfNode(mir[i]) : slot.d = "Resolved"

\* the positions of the Declares of synthetic names in a lowered body:
\* lowering gives the Pending slot to those and only those
SyntheticDeclares(body) ==
    {i \in DOMAIN body : body[i].k = "Declare" /\ body[i].typedef.d = "Pending"}

\* C5: synthetic names are unique within a function body: in the HIR lowered
\* by ast_to_hir no two Declare statements of the body of a function introduce
\* the same synthetic name.
C5_SyntheticNamesUnique ==
    HasLowered =>
        \A fn \in FunctionsOf(initial_mir) :
            \A i, j \in SyntheticDeclares(fn.body) : i # j => fn.body[i].var # fn.body[j].var

\* C5 witness: a body of two statements was lowered into at least four
\* Declares of synthetic names
C5_Witness ==
    /\ stage = "lowered"
    /\ Cardinality(SyntheticDeclares(MainOf(initial_mir).body)) >= 4
    /\ Cardinality({MainOf(initial_mir).body[i].var :
                       i \in SyntheticDeclares(MainOf(initial_mir).body)}) >= 4

\* the names a statement reads: the Variable leaves of its expressions
ReadsOfExpr(e) == {o.e.name : o \in {p \in OperandsOf(e) : p.e.k = "Variable"}}
ReadsOfStatement(s) ==
    CASE s.k \in {"Declare", "Assign", "Return"} -> ReadsOfExpr(s.expression)
      [] s.k = "FunctionCall" -> ReadsOfExpr(HFunctionCall(s.function, s.args, Pending))
      [] OTHER -> {}

\* the names read in body[i..] with no declaration earlier in the same or an
\* enclosing scope, scope being the names declared before body[i]
RECURSIVE UnknownReads(_, _, _)
UnknownReads(body, i, scope) ==
    IF i > Len(body) THEN {}
    ELSE (ReadsOfStatement(body[i]) \ scope)
         \cup (IF body[i].k = "If"
               THEN UnknownReads(body[i].true_branch, 1, scope)
                    \cup UnknownReads(body[i].false_branch, 1, scope)
               ELSE {})
         \cup UnknownReads(body, i + 1,
                           IF body[i].k = "Declare" THEN scope \cup {body[i].var} ELSE scope)

\* the names every function body may read: globals and top-level functions
GlobalNames(nodes) == DOMAIN globals \cup {fn.function_name : fn \in FunctionsOf(nodes)}
UnknownReadsOf(fn, nodes) ==
    UnknownReads(fn.body, 1,
                 GlobalNames(nodes) \cup {fn.parameters[i].name : i \in DOMAIN fn.parameters})

\* C6: scope checking is order-sensitive: when the scope checker accepts a
\* unit, every name read in a function body has a declaration earlier in the
\* same or an enclosing scope; a Declare whose own initializer reads the name
\* it declares, with no earlier declaration, is not accepted.
C6_ScopeOrderSensitive ==
    ScopeAccepted =>
        \A fn \in FunctionsOf(after_make_declarations_mir) :
            UnknownReadsOf(fn, after_make_declarations_mir) = {}

NotFound(v, function_name) == "Variable " \o v \o " not found, function: " \o function_name
\* the messages the unknown reads of the unit call for
NotFoundExpected ==
    UNION {{NotFound(v, fn.function_name) :
                v \in UnknownReadsOf(fn, after_make_declarations_mir)} :
           fn \in FunctionsOf(after_make_declarations_mir)}
\* every message of this form about a name read in the unit
NotFoundMessages ==
    UNION {{NotFound(v, fn.function_name) :
                v \in UNION {ReadsOfStatement(s) : s \in StatementsOf(fn.body)}} :
           fn \in FunctionsOf(after_make_declarations_mir)}

\* C7: the scope checker rejects every read of an unknown name: if a function
\* body reads a Variable that is neither a parameter, a local declared earlier
\* in scope, a top-level function nor a global, the check fails with
\* "Variable v not found, function: F" for such a v; if there is no such read
\* it does not fail with a message of this form.
C7_UnknownReadRejected ==
    ScopeChecked =>
        /\ NotFoundExpected # {} => (stage = "scope_failed" /\ failure \in NotFoundExpected)
        /\ NotFoundExpected = {} => ~(stage = "scope_failed" /\ failure \in NotFoundMessages)

\* the top-level function of a name
FunctionNames(nodes) == {fn.function_name : fn \in FunctionsOf(nodes)}
FunctionNamed(nodes, name) == CHOOSE fn \in FunctionsOf(nodes) : fn.function_name = name
\* the call expressions of a unit whose callee is a top-level function
CallsToFunctions(nodes) ==
    UNION {{e \in ExprsOf(fn.body) :
                e.k = "FunctionCall" /\ e.fn.e.name \in FunctionNames(nodes)} :
           fn \in FunctionsOf(nodes)}

\* C8: recursive calls and forward references resolve: type inference never
\* stops on a call to a top-level function because the callee is still
\* unresolved, whether the callee is the function being inferred or one
\* declared later in the unit, and in the HIR it returns every call to a
\* top-level function is typed with the declared return type of the callee.
C8_CallsToFunctionsResolve ==
    /\ stage = "inference_failed" =>
           failure \notin {StillUnresolved(g) : g \in FunctionNames(after_make_declarations_mir)}
    /\ stage = "inferred" =>
           \A e \in CallsToFunctions(mir) :
               e.ty = FunctionNamed(mir, e.fn.e.name).return_type

\* the array type of an element type, the types u32 and i32
array_of(item) == Generic(type_id("array"), <<item>>)
u32_type == Simple(type_id("u32"))
i32_type == Simple(type_id("i32"))
IsArray(typedef) ==
    typedef.d = "Resolved" /\ typedef.t.k = "Generic" /\ typedef.t.id = type_id("array")

\* the positions of a body that declare a name as the __index__ of an array
IndexDeclares(body) ==
    {i \in DOMAIN body :
        /\ body[i].k = "Declare"
        /\ body[i].expression.k = "MemberAccess"
        /\ body[i].expression.member = "__index__"
        /\ IsArray(body[i].expression.obj.ty)}
\* the calls in body[i+1..] through the name body[i] declares
CallsThrough(body, i) ==
    {e \in ExprsOf(SubSeq(body, i + 1, Len(body))) :
        e.k = "FunctionCall" /\ e.fn.e.name = body[i].var}

\* C9: generic method resolution for arrays: in the HIR infer_types returns,
\* a member access __index__ on an object of type array<T> is typed
\* Function([u32], T), the call through the name it is declared under is
\* typed T, and a member access length on an array is typed u32; inference
\* never stops on __index__ or length of an array.
C9_ArrayMembersResolve ==
    /\ stage = "inference_failed" =>
           failure \notin {UnwrapNone,
                           "Could not find member __index__ on type array",
                           "Could not find member length on type array"}
    /\ stage = "inferred" =>
           \A fn \in FunctionsOf(mir) :
               /\ \A e \in ExprsOf(fn.body) :
                      (e.k = "MemberAccess" /\ IsArray(e.obj.ty)) =>
                          /\ e.member = "__index__" =>
                                 e.ty = Resolved(Function(<<u32_type>>, e.obj.ty.t.args[1]))
                          /\ e.member = "length" => e.ty = Resolved(u32_type)
               /\ \A i \in IndexDeclares(fn.body) : \A e \in CallsThrough(fn.body, i) :
                      e.ty = Resolved(fn.body[i].expression.obj.ty.t.args[1])

\* C9 witness: a[0][0] was inferred for a: array<array<i32>>: the first
\* __index__ is typed Function([u32], array<i32>), the call through it
\* array<i32>, and the call through the __index__ of that result i32
C9_Witness ==
    /\ stage = "inferred"
    /\ LET body == MainOf(mir).body
       IN  \E i, j \in IndexDeclares(body) :
               /\ body[i].expression.ty =
                      Resolved(Function(<<u32_type>>, array_of(i32_type)))
               /\ \E e \in CallsThrough(body, i) : e.ty = Resolved(array_of(i32_type))
               /\ body[j].expression.obj.ty = Resolved(array_of(i32_type))
               /\ \E e \in CallsThrough(body, j) : e.ty = Resolved(i32_type)

\* the index accesses inside an AST expression, the expression itself included
RECURSIVE IndexAccessesOf(_)
IndexAccessesOf(e) ==
    CASE e.k = "IndexAccess" -> {e} \cup IndexAccessesOf(e.obj) \cup IndexAccessesOf(e.index)
      [] e.k = "BinaryOperation" -> IndexAccessesOf(e.lhs) \cup IndexAccessesOf(e.rhs)
      [] e.k = "UnaryExpression" -> IndexAccessesOf(e.rhs)
      [] e.k = "FunctionCall" ->
           IndexAccessesOf(e.fn) \cup UNION {IndexAccessesOf(e.args[i]) : i \in DOMAIN e.args}
      [] e.k = "MemberAccess" -> IndexAccessesOf(e.obj)
      [] e.k = "Array" -> UNION {IndexAccessesOf(e.items[i]) : i \in DOMAIN e.items}
      [] OTHER -> {}

\* r, the lowering of obj[index] as the expression of a statement, is the call
\* $k(i) after the synthetics of obj, $k = obj.__index__ and the synthetics
\* of index, where o is the lowering of obj and a that of index as operands
LoweredAsIndexCall(r, o, a) ==
    r.err = "" =>
        /\ o.err = "" /\ a.err = ""
        /\ r.n = o.n + 1 + a.n
        /\ r.accum = o.accum
                     \o <<HIRDeclare(make_intermediary(o.n), Pending,
                                     HMemberAccess(o.expr.t, "__index__", Pending))>>
                     \o a.accum
        /\ r.expr = HFunctionCall(Untyped(Variable(make_intermediary(o.n))),
                                  <<a.expr.t>>, Pending)

\* C11: index access lowers to an __index__ call: for every index access
\* obj[i] of the unit, lowering it gives exactly what lowering the call
\* obj.__index__(i) gives, and when it is lowered the member access is bound
\* to a synthetic $k = obj.__index__ (obj reduced to a trivial operand first)
\* and the expression becomes the call $k(i) with the reduced index as its
\* single argument.
C11_IndexLowersToCall ==
    stage \in {"lowered", "lowering_failed"} =>
        \A e \in UnitExprs : \A ia \in IndexAccessesOf(e) :
            /\ reduce_expr_to_hir_declarations(ia, 0, <<>>, FALSE)
                 = reduce_expr_to_hir_declarations(
                       FunctionCall(MemberAccess(ia.obj, "__index__"), <<ia.index>>),
                       0, <<>>, FALSE)
            /\ LoweredAsIndexCall(
                   reduce_expr_to_hir_declarations(ia, 0, <<>>, FALSE),
                   reduce_expr_to_hir_declarations(ia.obj, 0, <<>>, TRUE),
                   reduce_expr_to_hir_declarations(
                       ia.index,
                       reduce_expr_to_hir_declarations(ia.obj, 0, <<>>, TRUE).n + 1,
                       <<>>, TRUE))

\* C11 witness: a[x + 1] was lowered into $0 = a.__index__, $1 = x + 1 and
\* the call $0($1)
C11_Witness ==
    /\ stage = "lowered"
    /\ LET body == MainOf(initial_mir).body
       IN  \E i \in DOMAIN body :
               /\ i + 2 \in DOMAIN body
               /\ body[i].k = "Declare" /\ body[i + 1].k = "Declare"
               /\ body[i + 2].k \in {"Declare", "Assign", "Return"}
               /\ body[i] = HIRDeclare("$0", Pending,
                                       HMemberAccess(Untyped(Variable("a")), "__index__",
                                                     Pending))
               /\ body[i + 1] = HIRDeclare("$1", Pending,
                                           HBinaryOperation(Untyped(Variable("x")), "Plus",
                                                            Untyped(IntegerValue(1)), Pending))
               /\ body[i + 2].expression =
                      HFunctionCall(Untyped(Variable("$0")), <<Untyped(Variable("$1"))>>,
                                    Pending)

\* the stage a pass leaves do_analysis in when it returns, when it panics
PassSteps ==
    {<<"parsed", "lowered">>, <<"parsed", "lowering_failed">>,
     <<"lowered", "registered">>, <<"lowered", "registry_failed">>,
     <<"registered", "promoted">>,
     <<"promoted", "checked">>, <<"promoted", "scope_failed">>,
     <<"checked", "inferred">>, <<"checked", "inference_failed">>}
\* the stages at which a pass has not run yet
BeforeRegistry == {"parsed", "lowering_failed", "lowered", "registry_failed"}
BeforePromotion == BeforeRegistry \cup {"registered"}
BeforeInference == BeforePromotion \cup {"promoted", "scope_failed", "checked",
                                         "inference_failed"}
\* the names the registry holds before any unit is read
BuiltinNames == get_names(register_builtins(NameRegistry_new))
\* what the passes that have not run have left untouched
LaterPassesNotRun ==
    /\ failure # "" <=> stage \in FailedStages
    /\ stage \in {"parsed", "lowering_failed"} => (mir = <<>> /\ initial_mir = <<>>)
    /\ stage \in BeforeRegistry => globals = NameRegistry_new
    /\ stage \in BeforePromotion => after_make_declarations_mir = <<>>
    /\ (stage \in BeforeInference /\ stage \notin BeforePromotion) =>
           /\ mir = after_make_declarations_mir
           /\ \A n \in DOMAIN globals \ BuiltinNames : globals[n].d = "Unresolved"
\* one pass of do_analysis: the next one in order, and none after a panic
PassStep ==
    /\ <<stage, stage'>> \in PassSteps
    /\ unit' = unit
    /\ stage # "parsed" => initial_mir' = initial_mir
    /\ stage # "registered" => after_make_declarations_mir' = after_make_declarations_mir
    /\ stage \notin {"lowered", "checked"} => globals' = globals
    /\ stage' \in FailedStages => mir' = mir

\* C12: pass ordering and abort: the passes of do_analysis run in the order
\* lowering, name-registry build, first-assignment promotion, scope check,
\* type inference, each once; after a fatal error no later pass runs (a
\* scope error leaves the HIR and the globals as they were before type
\* inference).
C12_PassOrderAndAbort == [](LaterPassesNotRun) /\ [][PassStep]_vars

\* C12 witness: the scope checker stopped do_analysis on the read of a name
\* declared nowhere; type inference has not touched the HIR or the globals
C12_Witness ==
    /\ stage = "scope_failed"
    /\ failure = "Variable y not found, function: main"
    /\ mir = after_make_declarations_mir
    /\ mir # <<>>
    /\ \A n \in DOMAIN globals \ BuiltinNames : globals[n].d = "Unresolved"

\* the names of the Declares of body[i..] that are in scope already, scope
\* being the names in scope before body[i]; a branch of an If starts from
\* the scope at the If and what it declares ends with it
RECURSIVE Redeclared(_, _, _)
Redeclared(body, i, scope) ==
    IF i > Len(body) THEN {}
    ELSE (IF body[i].k = "Declare" /\ body[i].var \in scope THEN {body[i].var} ELSE {})
         \cup (IF body[i].k = "If"
               THEN Redeclared(body[i].true_branch, 1, scope)
                    \cup Redeclared(body[i].false_branch, 1, scope)
               ELSE {})
         \cup Redeclared(body, i + 1,
                         IF body[i].k = "Declare" THEN scope \cup {body[i].var} ELSE scope)

\* the first path segments of the Assigns of body[i..] that are not in
\* scope; with single, only of the Assigns to a path of one segment
RECURSIVE UndeclaredAssigns(_, _, _, _)
UndeclaredAssigns(body, i, scope, single) ==
    IF i > Len(body) THEN {}
    ELSE (IF /\ body[i].k = "Assign"
             /\ body[i].path[1] \notin scope
             /\ (single => Len(body[i].path) = 1)
          THEN {body[i].path[1]} ELSE {})
         \cup (IF body[i].k = "If"
               THEN UndeclaredAssigns(body[i].true_branch, 1, scope, single)
                    \cup UndeclaredAssigns(body[i].false_branch, 1, scope, single)
               ELSE {})
         \cup UndeclaredAssigns(body, i + 1,
                                IF body[i].k = "Declare" THEN scope \cup {body[i].var}
                                ELSE scope, single)

ParameterNames(fn) == {fn.parameters[i].name : i \in DOMAIN fn.parameters}
\* the scope at the entry of a function: the globals, every top-level
\* function name and the parameters
EntryScope(fn, nodes) == GlobalNames(nodes) \cup ParameterNames(fn)

\* the offences of the unit the scope checker was given, by kind
AllRedeclared ==
    UNION {Redeclared(fn.body, 1, EntryScope(fn, after_make_declarations_mir)) :
           fn \in FunctionsOf(after_make_declarations_mir)}
AllUndeclaredAssigns ==
    UNION {UndeclaredAssigns(fn.body, 1, EntryScope(fn, after_make_declarations_mir), FALSE) :
           fn \in FunctionsOf(after_make_declarations_mir)}
AllUnknownReads ==
    UNION {UnknownReadsOf(fn, after_make_declarations_mir) :
           fn \in FunctionsOf(after_make_declarations_mir)}

DeclaredTwice(v) == "Variable " \o v \o " declared more than once"
AssignUndeclared(v) == "Assign to undeclared variable " \o v
\* every name a message of the scope checker may be about
NamesOfUnit ==
    UNION {{s.var : s \in {t \in StatementsOf(fn.body) : t.k = "Declare"}}
           \cup UNION {Range(s.path) : s \in {t \in StatementsOf(fn.body) : t.k = "Assign"}} :
           fn \in FunctionsOf(after_make_declarations_mir)}

\* C13: duplicate declarations are rejected: a unit in which a Declare names
\* a variable already in scope (the globals, the top-level function names,
\* the parameters, the earlier Declares of the same or an enclosing block)
\* is never accepted by the scope checker; it fails with "Variable X declared
\* more than once" for such an X when the unit has no offence of another
\* kind, and it fails with this message for no other X.
C13_DuplicateDeclareRejected ==
    ScopeChecked =>
        /\ ScopeAccepted => AllRedeclared = {}
        /\ (AllRedeclared # {} /\ AllUndeclaredAssigns = {} /\ AllUnknownReads = {}) =>
               (stage = "scope_failed" /\ failure \in {DeclaredTwice(v) : v \in AllRedeclared})
        /\ \A v \in NamesOfUnit \ AllRedeclared : failure # DeclaredTwice(v)

\* C13 witness: main declares y and declares it again inside a branch of an
\* If that follows; the scope checker stopped on the second Declare
C13_Witness ==
    /\ stage = "scope_failed"
    /\ failure = DeclaredTwice("y")
    /\ LET body == MainOf(after_make_declarations_mir).body
       IN  /\ Len(body) = 2
           /\ body[1].k = "Declare" /\ body[1].var = "y"
           /\ body[2].k = "If"
           /\ body[2].true_branch = <<>>
           /\ Len(body[2].false_branch) = 1
           /\ body[2].false_branch[1].k = "Declare"

\* C14: assignment to an undeclared name is rejected: a unit with an Assign
\* whose first path segment is not in scope is never accepted by the scope
\* checker; it fails with "Assign to undeclared variable X" for such an X when
\* the unit has no offence of another kind, and it fails with this message
\* for no X that is the first segment of no such Assign, so an Assign whose
\* first segment is in scope is never rejected for its target.
C14_UndeclaredAssignRejected ==
    ScopeChecked =>
        /\ ScopeAccepted => AllUndeclaredAssigns = {}
        /\ (AllUndeclaredAssigns # {} /\ AllRedeclared = {} /\ AllUnknownReads = {}) =>
               (stage = "scope_failed"
                /\ failure \in {AssignUndeclared(v) : v \in AllUndeclaredAssigns})
        /\ \A v \in NamesOfUnit \ AllUndeclaredAssigns : failure # AssignUndeclared(v)

\* C14 witness: y is declared in a branch of an If only and y.field is
\* assigned after the If; the scope checker stopped on the Assign
C14_Witness ==
    /\ stage = "scope_failed"
    /\ failure = AssignUndeclared("y")
    /\ LET body == MainOf(after_make_declarations_mir).body
       IN  /\ Len(body) = 2
           /\ body[1].k = "If"
           /\ Len(body[1].true_branch) = 1
           /\ body[1].true_branch[1].k = "Declare"
           /\ body[2].k = "Assign" /\ body[2].path = <<"y", "field">>

\* C15: first-assignment promotion is idempotent: applying
\* transform_first_assignment_into_declaration to its own output returns that
\* output unchanged, and after one application no Assign to a path of one
\* segment in a function body targets a name that is neither a parameter nor
\* declared earlier in the same or an enclosing block.
C15_PromotionIdempotent ==
    /\ stage = "promoted_again" => mir = after_make_declarations_mir
    /\ stage \notin BeforePromotion =>
           \A fn \in FunctionsOf(after_make_declarations_mir) :
               UndeclaredAssigns(fn.body, 1, ParameterNames(fn), TRUE) = {}

\* C15 witness: main was  if x: y = 1 else: y = 1  followed by  y = 1;  all
\* three assignments were promoted, and the second application changed nothing
C15_Witness ==
    /\ stage = "promoted_again"
    /\ mir = after_make_declarations_mir
    /\ LET before == MainOf(initial_mir).body
           after == MainOf(mir).body
       IN  /\ Len(before) = 2
           /\ before[1].k = "If"
           /\ Len(before[1].true_branch) = 1 /\ before[1].true_branch[1].k = "Assign"
           /\ Len(before[1].false_branch) = 1 /\ before[1].false_branch[1].k = "Assign"
           /\ before[2].k = "Assign" /\ before[2].path = <<"y">>
           /\ after[1].true_branch[1] = HIRDeclare("y", Pending, HirOne)
           /\ after[1].false_branch[1] = HIRDeclare("y", Pending, HirOne)
           /\ after[2] = HIRDeclare("y", Pending, HirOne)


(***************************************************************************)
(* Properties of the encoder written part by part                          *)
(***************************************************************************)
\* the parts of the layout being written, the names among them
PartsOf(name) == get_all_instruction_layouts[name].layout
LayoutPartNames(name) == {PartsOf(name)[k].name : k \in DOMAIN PartsOf(name)}
\* the writes made to a name the layout does not have
UnknownWrites == {w \in written : w.part \notin LayoutPartNames(enc.layout)}

\* C16: writing an unknown part is fatal: once encode or encode_bytes has
\* been called with a part name that is not in the layout of the encoder,
\* the run has stopped with "Could not find instruction part <name>" and no
\* word is made, whatever parts were written before.
C16_UnknownPartFatal ==
    (cmode = "parts" /\ UnknownWrites # {}) =>
        /\ cpc = "encode_panicked"
        /\ \E w \in UnknownWrites : fatal = "Could not find instruction part " \o w.part

\* C16 witness: a part of a layout was written, then a part it does not
\* have, and the encoder stopped
C16_Witness ==
    /\ cmode = "parts" /\ cpc = "encode_panicked"
    /\ fatal = "Could not find instruction part no such part"
    /\ Cardinality(written \ UnknownWrites) = 1
    /\ Cardinality(UnknownWrites) = 1
    /\ enc.current # begin_encode(enc.layout).enc.current

\* the position of a named part in its layout, its length, the lowest bit of
\* its slot: bits SlotLow .. SlotLow + SlotLength - 1 of the word
PartIndex(name, part) == CHOOSE k \in DOMAIN PartsOf(name) : PartsOf(name)[k].name = part
SlotLength(name, part) == PartsOf(name)[PartIndex(name, part)].length
SlotLow(name, part) ==
    WordBits - PartOffset(PartsOf(name), PartIndex(name, part)) - SlotLength(name, part)
\* a word with the bits of a slot cleared
OutsideSlot(w, lo, len) == U32(w.hi, w.lo - BitsToNat(w, lo, len) * (2 ^ lo))

\* the u32 whose bytes, least significant first, are the slice padded with zeros
LittleEndian(slice) ==
    LET byte(k) == IF k <= Len(slice) THEN slice[k] ELSE 0
    IN  WrappingAdd(FromNat(byte(1) + 256 * byte(2) + 65536 * byte(3)),
                    Shl(FromNat(byte(4)), 24))
\* the u32 a write passes for its part
WriteValue(w) == IF w.bytes THEN LittleEndian(w.slice) ELSE w.value
\* the number a write is to leave in the slot of its part: the value, or the
\* pattern declared for it, cut to the length of the part
SlotBits(name, w) ==
    LET lp == PartsOf(name)[PartIndex(name, w.part)]
        declared == {k \in DOMAIN lp.patterns : FromNat(lp.patterns[k].value) = WriteValue(w)}
    IN  IF lp.layout_type = "Immediate" THEN WriteValue(w).lo % (2 ^ lp.length)
        ELSE lp.patterns[CHOOSE k \in declared : \A j \in declared : k <= j].pattern
                 % (2 ^ lp.length)

\* a write of the caller that returned
WriteReturned ==
    cmode = "parts" /\ cpc \in {"encoding", "encoded"} /\ cpc' = "encoding" /\ written' # written

\* C17: a part write is confined to its slot: every write that returns, of
\* any value to any part of any layout, leaves in the slot of the part the
\* value (or its bit pattern) cut to the length of the part and changes no
\* bit of the word outside that slot, neither the pseudo-op nor another part,
\* also when the value needs more bits than the part has.  The writes meant
\* are the first ones to their part.
C17_WriteConfined ==
    [][WriteReturned =>
          \A w \in {x \in written' \ written : x.nth = 1} :
              /\ OutsideSlot(enc'.current, SlotLow(enc.layout, w.part),
                             SlotLength(enc.layout, w.part))
                   = OutsideSlot(enc.current, SlotLow(enc.layout, w.part),
                                 SlotLength(enc.layout, w.part))
              /\ BitsToNat(enc.current, SlotLow(enc.layout, w.part),
                           SlotLength(enc.layout, w.part)) = 0 =>
                     BitsToNat(enc'.current, SlotLow(enc.layout, w.part),
                               SlotLength(enc.layout, w.part)) = SlotBits(enc.layout, w)]_vars

RECURSIVE InLayoutOrder(_, _, _, _)
\* the writes made so far applied to e in the declared order of the parts of
\* the layout, from the n-th write to the i-th part on
InLayoutOrder(e, i, n, writes) ==
    IF i > Len(PartsOf(e.layout)) THEN e
    ELSE LET here == {w \in writes : w.part = PartsOf(e.layout)[i].name /\ w.nth = n}
         IN  IF here = {} THEN InLayoutOrder(e, i + 1, 1, writes)
             ELSE InLayoutOrder(encode(e, PartsOf(e.layout)[i].name,
                                       WriteValue(CHOOSE w \in here : TRUE),
                                       overflow_checks).enc,
                                i, n + 1, writes)

\* the word does not depend on the order the writes were made in
OrderIndependent ==
    (cmode = "parts" /\ cpc = "encoding") =>
        enc.current = InLayoutOrder(begin_encode(enc.layout).enc, 1, 1, written).current

\* no part was written twice
DistinctParts == \A w \in written : w.nth = 1
\* the parts of the layout no write was made to
UnwrittenParts == LayoutPartNames(enc.layout) \ WrittenParts

\* C18: part writes commute: distinct parts written with the same values in
\* any order give the word they give when written in the declared order of
\* the layout, and the slot of a part that was never written is all zero.
C18_WritesCommute ==
    (cmode = "parts" /\ cpc = "encoding" /\ DistinctParts) =>
        /\ enc.current = InLayoutOrder(begin_encode(enc.layout).enc, 1, 1, written).current
        /\ \A part \in UnwrittenParts :
               BitsToNat(enc.current, SlotLow(enc.layout, part),
                         SlotLength(enc.layout, part)) = 0

\* a byte-slice write of the caller was made in this step
SliceWritten ==
    cmode = "parts" /\ cpc \in {"encoding", "encoded"} /\ \E w \in written' \ written : w.bytes

\* C19: encode_bytes equals the scalar write of the little-endian value: for
\* every byte slice of length 0 to 4 and every part name, encode_bytes leaves
\* the encoder, and the fatal error if any, as encode does for the slice
\* padded with zeros to four bytes and read least significant byte first.
C19_BytesAsLittleEndian ==
    [][SliceWritten =>
          \A w \in written' \ written :
              \E r \in {encode(enc, w.part, LittleEndian(w.slice), overflow_checks)} :
                  /\ enc' = r.enc
                  /\ fatal' = r.msg
                  /\ (cpc' = "encoding") = ~r.panic]_vars

\* C19 witness: after a scalar write to another part, a slice of several bytes,
\* the last of them not zero, was written to an immediate part; the write
\* returned and left bits in the slot of the part
C19_Witness ==
    /\ cmode = "parts" /\ cpc = "encoding"
    /\ \E w1, w2 \in written :
          /\ ~w1.bytes
          /\ w2.bytes /\ Len(w2.slice) \in 2 .. 4 /\ w2.slice[Len(w2.slice)] # 0
          /\ BitsToNat(enc.current, SlotLow(enc.layout, w2.part),
                       SlotLength(enc.layout, w2.part)) # 0


(***************************************************************************)
(* The order of the statements lowering emits                              *)
(***************************************************************************)
\* an AST expression with every index access written as the call it is
\* lowered as (C11)
RECURSIVE WithIndexCalls(_)
WithIndexCalls(e) ==
    CASE e.k = "IndexAccess" ->
           FunctionCall(MemberAccess(WithIndexCalls(e.obj), "__index__"),
                        <<WithIndexCalls(e.index)>>)
      [] e.k = "BinaryOperation" ->
           BinaryOperation(WithIndexCalls(e.lhs), e.op, WithIndexCalls(e.rhs))
      [] e.k = "UnaryExpression" -> UnaryExpression(e.op, WithIndexCalls(e.rhs))
      [] e.k = "FunctionCall" ->
           FunctionCall(WithIndexCalls(e.fn),
                        [i \in DOMAIN e.args |-> WithIndexCalls(e.args[i])])
      [] e.k = "MemberAccess" -> MemberAccess(WithIndexCalls(e.obj), e.member)
      [] e.k = "Array" -> Array([i \in DOMAIN e.items |-> WithIndexCalls(e.items[i])])
      [] OTHER -> e

\* the direct sub-expressions of an AST expression, left to right: the
\* operands of an operation, the callee and then the arguments of a call, the
\* object of a member access, the items of an array, the object and then the
\* index of an index access
SubExpressions(e) ==
    CASE e.k = "BinaryOperation" -> <<e.lhs, e.rhs>>
      [] e.k = "UnaryExpression" -> <<e.rhs>>
      [] e.k = "FunctionCall" -> <<e.fn>> \o e.args
      [] e.k = "MemberAccess" -> <<e.obj>>
      [] e.k = "Array" -> e.items
      [] e.k = "IndexAccess" -> <<e.obj, e.index>>
      [] OTHER -> <<>>
\* the same for an HIR expression: its typed trivial operands in order
OperandSeq(x) ==
    CASE x.k = "BinaryOperation" -> <<x.lhs, x.rhs>>
      [] x.k = "UnaryExpression" -> <<x.rhs>>
      [] x.k = "FunctionCall" -> <<x.fn>> \o x.args
      [] x.k = "MemberAccess" -> <<x.obj>>
      [] x.k = "Array" -> x.items
      [] OTHER -> <<>>
\* what an expression is besides its operands: the operator or the member
LabelOf(e) ==
    CASE e.k \in {"BinaryOperation", "UnaryExpression"} -> e.op
      [] e.k = "MemberAccess" -> e.member
      [] OTHER -> ""
IsTrivial(e) == e.k \in TrivialKinds

\* the number of non-trivial expressions in e, e itself included, and in the
\* first n expressions of a sequence
RECURSIVE NonTrivialIn(_), NonTrivialInFirst(_, _)
NonTrivialIn(e) ==
    IF IsTrivial(e) THEN 0 ELSE 1 + NonTrivialInFirst(SubExpressions(e), Len(SubExpressions(e)))
NonTrivialInFirst(es, n) ==
    IF n = 0 THEN 0 ELSE NonTrivialInFirst(es, n - 1) + NonTrivialIn(es[n])

\* the expression of an HIR statement; a call statement holds its callee and
\* arguments itself
ExpressionAt(st) ==
    IF st.k = "FunctionCall" THEN HFunctionCall(st.function, st.args, Pending)
    ELSE st.expression

\* the non-trivial expression e was lowered depth-first and left to right
\* into body[first ..]: the statements that come from e are as many as its
\* non-trivial sub-expressions, the last one holds e itself, and each operand
\* of it is the trivial sub-expression, or the name of a synthetic Declare
\* that ends the statements of that sub-expression, which lie before those
\* of the sub-expressions to its right
RECURSIVE ReducedInOrder(_, _, _)
ReducedInOrder(e, body, first) ==
    /\ first + NonTrivialIn(e) - 1 \in DOMAIN body
    /\ ExpressionAt(body[first + NonTrivialIn(e) - 1]).k = e.k
    /\ LabelOf(ExpressionAt(body[first + NonTrivialIn(e) - 1])) = LabelOf(e)
    /\ Len(OperandSeq(ExpressionAt(body[first + NonTrivialIn(e) - 1]))) = Len(SubExpressions(e))
    /\ \A i \in DOMAIN SubExpressions(e) :
         IF IsTrivial(SubExpressions(e)[i])
         THEN OperandSeq(ExpressionAt(body[first + NonTrivialIn(e) - 1]))[i]
                = Untyped(SubExpressions(e)[i])
         ELSE /\ body[first + NonTrivialInFirst(SubExpressions(e), i) - 1].k = "Declare"
              /\ body[first + NonTrivialInFirst(SubExpressions(e), i) - 1].typedef = Pending
              /\ OperandSeq(ExpressionAt(body[first + NonTrivialIn(e) - 1]))[i]
                   = Untyped(Variable(
                         body[first + NonTrivialInFirst(SubExpressions(e), i) - 1].var))
              /\ ReducedInOrder(SubExpressions(e)[i], body,
                                first + NonTrivialInFirst(SubExpressions(e), i - 1))

\* the expression of an AST statement as it is written (none for an empty
\* return)
WrittenExpressions(s) == IF s.k = "Return" THEN s.value ELSE <<s.expression>>
\* the same with every index access read as the call it is lowered as
ExpressionsOfStatement(s) ==
    [i \in DOMAIN WrittenExpressions(s) |-> WithIndexCalls(WrittenExpressions(s)[i])]
\* the number of HIR statements an AST statement is lowered into
StatementsFor(s) ==
    IF ExpressionsOfStatement(s) = <<>> \/ IsTrivial(ExpressionsOfStatement(s)[1]) THEN 1
    ELSE NonTrivialIn(ExpressionsOfStatement(s)[1])

\* the AST statement s was lowered into body[first .. last]: the last one is
\* the statement itself, of the same kind and target, not a synthetic Declare,
\* and carries the top-level expression of s
StatementKept(s, body, first, last) ==
    /\ last \in DOMAIN body
    /\ CASE s.k = "Declare" ->
              /\ body[last].k = "Declare" /\ body[last].var = s.var.name
              /\ body[last].typedef.d = "Unresolved"
         [] s.k = "Assign" -> body[last].k = "Assign" /\ body[last].path = s.path
         [] s.k = "Return" ->
              body[last].k = IF s.value = <<>> THEN "EmptyReturn" ELSE "Return"
         [] OTHER -> body[last].k = "FunctionCall"
    /\ \A i \in DOMAIN ExpressionsOfStatement(s) :
         IF IsTrivial(ExpressionsOfStatement(s)[i])
         THEN body[last].expression = HTrivial(Untyped(ExpressionsOfStatement(s)[i]))
         ELSE ReducedInOrder(ExpressionsOfStatement(s)[i], body, first)

\* the statements from the i-th on were lowered one after the other into
\* body[first ..], nothing else following
RECURSIVE BodyInOrder(_, _, _, _)
BodyInOrder(statements, i, body, first) ==
    IF i > Len(statements) THEN first = Len(body) + 1
    ELSE /\ StatementKept(statements[i], body, first, first + StatementsFor(statements[i]) - 1)
         /\ BodyInOrder(statements, i + 1, body, first + StatementsFor(statements[i]))

\* every function of the unit was lowered statement by statement, depth-first
\* and left to right, each statement keeping its kind, its target and its
\* top-level expression, an index access being read as the call it is
\* lowered as
LoweredInOrder ==
    \A i \in DOMAIN unit.nodes :
        unit.nodes[i].k = "DeclareFunction" =>
            /\ initial_mir[i].k = "DeclareFunction"
            /\ BodyInOrder(unit.nodes[i].body, 1, initial_mir[i].body, 1)

\* the number of non-trivial proper sub-expressions of the expressions as
\* they are written in the first n statements
RECURSIVE ProperSubExpressionsWritten(_, _)
ProperSubExpressionsWritten(statements, n) ==
    IF n = 0 THEN 0
    ELSE ProperSubExpressionsWritten(statements, n - 1)
         + (IF WrittenExpressions(statements[n]) = <<>>
               \/ IsTrivial(WrittenExpressions(statements[n])[1])
            THEN 0
            ELSE NonTrivialIn(WrittenExpressions(statements[n])[1]) - 1)

\* C20 as first stated: reduction is depth-first and left to right, the
\* statement keeps its top-level expression, and exactly one synthetic
\* Declare is emitted for each non-trivial proper sub-expression of the
\* expression as it is written: the HIR body of a function has, besides one
\* statement per statement of the source, as many Declares as the source
\* expressions have non-trivial proper sub-expressions.
C20_OneSyntheticPerWrittenSubExpression ==
    stage = "lowered" =>
        /\ LoweredInOrder
        /\ \A i \in DOMAIN unit.nodes :
               unit.nodes[i].k = "DeclareFunction" =>
                   Len(initial_mir[i].body)
                     = Len(unit.nodes[i].body)
                       + ProperSubExpressionsWritten(unit.nodes[i].body,
                                                     Len(unit.nodes[i].body))

\* C20 as amended: reduction is depth-first and left to right, and the
\* statement keeps its top-level expression: in every function that was
\* lowered, each statement of the source is one statement of the HIR of the
\* same kind that holds the top-level expression (never a synthetic in its
\* place), exactly one synthetic Declare stands for each non-trivial proper
\* sub-expression, an index access obj[i] being read as the call
\* obj.__index__(i) whose callee obj.__index__ is a sub-expression of its
\* own, the synthetics of a left operand, callee or earlier argument come
\* before those of what is to its right, and all of them come right before
\* the statement.
C20_DepthFirstLeftToRight == stage = "lowered" => LoweredInOrder

\* C20 witness: main starts with  y = a[0],  lowered into
\* $0 = a.__index__,  y = $0(0),  and its last statement has an index access
\* of an index access as its right operand: the member access and the call
\* of the inner one, then those of the outer one, then the statement
C20_Witness ==
    /\ stage = "lowered"
    /\ LET body == MainOf(initial_mir).body
       IN  /\ Len(body) = 7
           /\ body[1] = HIRDeclare("$0", Pending,
                            HMemberAccess(Untyped(Variable("a")), "__index__", Pending))
           /\ body[2] = HIRAssign(<<"y">>,
                            HFunctionCall(Untyped(Variable("$0")),
                                          <<Untyped(IntegerValue(0))>>, Pending))
           /\ body[3].k = "Declare" /\ body[3].expression.k = "MemberAccess"
           /\ body[3].expression.obj = Untyped(Variable("a"))
           /\ body[4].k = "Declare" /\ body[4].expression.k = "FunctionCall"
           /\ body[4].expression.fn = Untyped(Variable(body[3].var))
           /\ body[5].k = "Declare" /\ body[5].expression.k = "MemberAccess"
           /\ body[5].expression.obj = Untyped(Variable(body[4].var))
           /\ body[6].k = "Declare" /\ body[6].expression.k = "FunctionCall"
           /\ body[6].expression.fn = Untyped(Variable(body[5].var))
           /\ body[7].k = "Assign"
           /\ body[7].expression.k = "BinaryOperation"
           /\ body[7].expression.lhs = Untyped(Variable("x"))
           /\ body[7].expression.rhs = Untyped(Variable(body[6].var))


(***************************************************************************)
(* The numbering of the synthetic names                                    *)
(***************************************************************************)
\* values of the fresh-name counter a lowering call is entered with
CounterStarts == {0, 1, 7}

\* the synthetic Declares of body are named $start, $start + 1, .. in the
\* order they stand in
NumberedFrom(body, start) ==
    \A i \in SyntheticDeclares(body) :
        body[i].var = make_intermediary(
                          start + Cardinality({j \in SyntheticDeclares(body) : j < i}))

\* r is the result of lowering one function declaration entered with the
\* counter at start: no intermediary is reported, and the body is numbered
\* from start
FunctionNumbered(r, start) ==
    /\ r.err = "" /\ r.n = 0
    /\ Len(r.accum) = 1
    /\ NumberedFrom(r.accum[1].body, start)

\* r is the result of lowering two function declarations one after the
\* other: the second starts where the first started
BothNumbered(r, start) ==
    /\ r.err = "" /\ r.n = 0
    /\ Len(r.accum) = 2
    /\ NumberedFrom(r.accum[1].body, start)
    /\ NumberedFrom(r.accum[2].body, start)

\* r is the result of lowering a statement into an empty list: it reports as
\* many intermediaries as it appended synthetic Declares
CountsItsDeclares(r) == r.err = "" /\ r.n = Cardinality(SyntheticDeclares(r.accum))

\* the function declarations of the unit
UnitFunctions ==
    {unit.nodes[i] : i \in {j \in DOMAIN unit.nodes : unit.nodes[j].k = "DeclareFunction"}}

\* C21: synthetic numbering is consecutive and per function: in every
\* lowered function body the synthetic Declares are $0, $1, .. in the order
\* they were emitted; a function entered with the counter at k numbers them
\* from k and reports no intermediary, so a function lowered after another
\* starts at the same number; and every statement reports as many
\* intermediaries as the synthetic Declares it appended.
C21_NumberingPerFunction ==
    stage = "lowered" =>
        /\ \A fn \in FunctionsOf(initial_mir) : NumberedFrom(fn.body, 0)
        /\ \A fn \in UnitFunctions : \A k \in CounterStarts :
               /\ FunctionNumbered(ast_to_hir(fn, k, <<>>), k)
               /\ \A i \in DOMAIN fn.body : CountsItsDeclares(ast_to_hir(fn.body[i], k, <<>>))
        /\ \A f1, f2 \in UnitFunctions : \A k \in CounterStarts :
               BothNumbered(ast_to_hir(ASTRoot(<<f1, f2>>), k, <<>>), k)

\* C21 witness: main was lowered into a body with the synthetics $0, $1, $2
\* and $3 from two statements
C21_Witness ==
    /\ stage = "lowered"
    /\ \E i1, i2, i3, i4 \in SyntheticDeclares(MainOf(initial_mir).body) :
          /\ i1 < i2 /\ i2 < i3 /\ i3 < i4
          /\ \E j \in DOMAIN MainOf(initial_mir).body :
                i2 < j /\ j < i3 /\ MainOf(initial_mir).body[j].k = "Assign"
          /\ MainOf(initial_mir).body[i1].var = "$0"
          /\ MainOf(initial_mir).body[i2].var = "$1"
          /\ MainOf(initial_mir).body[i3].var = "$2"
          /\ MainOf(initial_mir).body[i4].var = "$3"


(***************************************************************************)
(* The branches of an If in the scope checker                              *)
(***************************************************************************)
\* the unit has no offence when each branch of an If starts from a copy of
\* the scope at the If and what it declares ends with it
NoOffence == AllRedeclared = {} /\ AllUndeclaredAssigns = {} /\ AllUnknownReads = {}

\* C22: the branches of an If are independent scopes in the scope checker: a
\* unit is accepted exactly when it has no duplicate declaration, no
\* assignment to an undeclared name and no read of an unknown name, each
\* branch being taken with its own copy of the scope at the If: what the
\* enclosing block declared before the If is in scope in both branches, what
\* a branch declares is in scope neither in the other branch nor after the
\* If, and may be declared in the other branch and after the If again.
C22_BranchesIndependent ==
    ScopeChecked => (ScopeAccepted <=> NoOffence)

\* C22 witness: main is  if x: (y: i32 = 1) else: (y: i32 = 1)  followed by
\* y: i32 = 1,  and the scope checker accepted it
C22_Witness ==
    /\ stage = "checked"
    /\ LET body == MainOf(after_make_declarations_mir).body
       IN  /\ Len(body) = 2
           /\ body[1].k = "If"
           /\ body[1].true_branch = <<HIRDeclare("y", HirI32, HirOne)>>
           /\ body[1].false_branch = <<HIRDeclare("y", HirI32, HirOne)>>
           /\ body[2] = HIRDeclare("y", HirI32, HirOne)


(***************************************************************************)
(* Generic substitution                                                    *)
(***************************************************************************)
\* the type of a member as the record of the declaring type has it: the
\* signature of the first method of that name, else the type of the field
MembersNamed(members, name) == {i \in DOMAIN members : members[i].name = name}
HasMember(rec, name) ==
    MembersNamed(rec.methods, name) # {} \/ MembersNamed(rec.fields, name) # {}
DeclaredMemberType(rec, name) ==
    IF MembersNamed(rec.methods, name) # {}
    THEN TypeFunction(
             rec.methods[CHOOSE i \in MembersNamed(rec.methods, name) :
                            \A j \in MembersNamed(rec.methods, name) : i <= j].args,
             rec.methods[CHOOSE i \in MembersNamed(rec.methods, name) :
                            \A j \in MembersNamed(rec.methods, name) : i <= j].return_type)
    ELSE rec.fields[CHOOSE i \in MembersNamed(rec.fields, name) :
                       \A j \in MembersNamed(rec.fields, name) : i <= j].field_type

\* t with every generic parameter, at every depth, replaced by the actual at
\* the position the parameter has in params
RECURSIVE Substituted(_, _, _)
Substituted(t, params, actuals) ==
    CASE t.k = "Simple" -> Simple(t.id)
      [] t.k = "GenericParameter" ->
           actuals[CHOOSE i \in DOMAIN params : params[i] = t.name]
      [] t.k = "Generic" ->
           Generic(t.id, [i \in DOMAIN t.args |-> Substituted(t.args[i], params, actuals)])
      [] OTHER ->
           Function([i \in DOMAIN t.args |-> Substituted(t.args[i], params, actuals)],
                    Substituted(t.ret, params, actuals))

\* a type instance holds no generic parameter at any depth
RECURSIVE ParameterFree(_)
ParameterFree(t) ==
    CASE t.k = "Simple" -> TRUE
      [] t.k = "Generic" -> \A i \in DOMAIN t.args : ParameterFree(t.args[i])
      [] t.k = "Function" ->
           (\A i \in DOMAIN t.args : ParameterFree(t.args[i])) /\ ParameterFree(t.ret)
      [] OTHER -> FALSE

\* the type a call made on its own resolves: the declared type of the member,
\* or the signature type given
TypeToResolve ==
    IF invoked.op = "member_access"
    THEN DeclaredMemberType(find(invoked.object.id), invoked.member)
    ELSE invoked.signature_type
\* a member the object has was accessed, or a signature type was resolved
Resolution ==
    /\ outcome # NoCall
    /\ \/ invoked.op = "member_access" /\ HasMember(find(invoked.object.id), invoked.member)
       \/ invoked.op = "resolve_type"

DeclareGiven == invoked.body[1]
DeclareInferred == outcome.body[1]
\* return y  is typed by the entry of y in the scope
TypeInScope == outcome.body[2].ty
BodyInferred == invoked.op = "infer_types_in_body" /\ outcome # NoCall
\* the annotation H of the Declare as a type instance
Annotation == instantiate_type(DeclareGiven.typedef.t).t
\* the type of a literal or of a variable of TypingScope
TypeOfOperand(t) ==
    CASE t.e.k = "IntegerValue" -> Simple(type_id("i32"))
      [] t.e.k = "StringValue" -> Simple(type_id("str"))
      [] OTHER -> TypingScope[t.e.name].t

\* C24: an empty array literal takes its type from the hint: for a Declare
\* with annotation H whose expression is an empty array literal, the
\* inferred type of the literal and the type recorded in scope for the
\* variable are H itself; a non-empty literal is typed array<type of its
\* first element> whatever the hint.
C24_ArrayLiteralTyped ==
    (BodyInferred /\ DeclareGiven.expression.k = "Array") =>
        IF DeclareGiven.expression.items = <<>>
        THEN DeclareGiven.typedef # Pending =>
                 /\ outcome.op = "returned"
                 /\ DeclareInferred.expression.ty = Resolved(Annotation)
                 /\ TypeInScope = Resolved(Annotation)
        ELSE /\ outcome.op = "returned"
             /\ DeclareInferred.expression.ty =
                    Resolved(Generic(type_id("array"),
                                     <<TypeOfOperand(DeclareGiven.expression.items[1])>>))
             /\ TypeInScope = DeclareInferred.expression.ty


(***************************************************************************)
(* The type of a call                                                      *)
(***************************************************************************)
CallInferred == BodyInferred /\ DeclareGiven.expression.k = "FunctionCall"
Callee == DeclareGiven.expression.fn.e.name

\* C25: a call is typed by the callee alone: when the callee variable
\* resolves to Function(params, ret) the call is typed ret for every number
\* and every type of arguments, and type inference fails when the callee
\* resolves to a type that is no function.
C25_CallTypedByCallee ==
    (CallInferred /\ Callee \in DOMAIN TypingScope) =>
        IF TypingScope[Callee].t.k = "Function"
        THEN /\ outcome.op = "returned"
             /\ DeclareInferred.expression.ty = Resolved(TypingScope[Callee].t.ret)
             /\ DeclareInferred.expression.fn.ty = TypingScope[Callee]
             /\ TypeInScope = Resolved(TypingScope[Callee].t.ret)
        ELSE outcome.op = "panicked"

\* h: fn(i32, str) -> array<i32> called with one argument, a str, and typed
\* array<i32>
C25_Witness ==
    /\ CallInferred /\ Callee = "h"
    /\ Len(DeclareGiven.expression.args) = 1
    /\ DeclareGiven.expression.args[1].e = Variable("s")
    /\ outcome.op = "returned"
    /\ DeclareInferred.expression.ty =
           Resolved(Generic(type_id("array"), <<Simple(type_id("i32"))>>))


(***************************************************************************)
(* What type inference leaves alone                                        *)
(***************************************************************************)
\* an operand, an expression, a statement with every type slot emptied
OperandErased(t) == TypedTrivialHIRExpr(t.e, Pending)
OperandsErased(ts) == [i \in DOMAIN ts |-> OperandErased(ts[i])]
ExprErased(e) ==
    CASE e.k = "Trivial" -> HTrivial(OperandErased(e.t))
      [] e.k = "BinaryOperation" ->
           HBinaryOperation(OperandErased(e.lhs), e.op, OperandErased(e.rhs), Pending)
      [] e.k = "FunctionCall" ->
           HFunctionCall(OperandErased(e.fn), OperandsErased(e.args), Pending)
      [] e.k = "UnaryExpression" -> HUnaryExpression(e.op, OperandErased(e.rhs), Pending)
      [] e.k = "MemberAccess" -> HMemberAccess(OperandErased(e.obj), e.member, Pending)
      [] e.k = "Array" -> HArray(OperandsErased(e.items), Pending)
      [] OTHER -> e
RECURSIVE SlotsErased(_)
SlotsErased(nodes) ==
    [i \in DOMAIN nodes |->
        CASE nodes[i].k = "Declare" ->
               HIRDeclare(nodes[i].var, Pending, ExprErased(nodes[i].expression))
          [] nodes[i].k = "Assign" -> HIRAssign(nodes[i].path, ExprErased(nodes[i].expression))
          [] nodes[i].k = "FunctionCall" ->
               HIRFunctionCall(OperandErased(nodes[i].function), OperandsErased(nodes[i].args))
          [] nodes[i].k = "If" ->
               HIRIf(OperandErased(nodes[i].condition), SlotsErased(nodes[i].true_branch),
                     SlotsErased(nodes[i].false_branch))
          [] nodes[i].k = "Return" -> HIRReturn(ExprErased(nodes[i].expression), Pending)
          [] nodes[i].k = "DeclareFunction" ->
               HIRDeclareFunction(nodes[i].function_name,
                                  [j \in DOMAIN nodes[i].parameters |->
                                      HIRTypedBoundName(nodes[i].parameters[j].name, Pending)],
                                  SlotsErased(nodes[i].body), Pending)
          [] OTHER -> nodes[i]]

InferTypesKeepsAllButSlots == stage' = "inferred" => SlotsErased(mir') = SlotsErased(mir)

\* C26: type inference changes type slots only: the HIR infer_types returns
\* has the same statements in the same order and nesting as the HIR it was
\* given, with the same names, paths, operators, literals and operands; the
\* two differ in the content of type slots at most.
C26_OnlyTypeSlotsChange == [][InferTypesKeepsAllButSlots]_vars

\* C26 witness: type inference returned main with a synthetic Declare of a
\* binary operation before its last statement, every slot of it filled
C26_Witness ==
    /\ stage = "inferred"
    /\ mir # after_make_declarations_mir
    /\ \E i \in DOMAIN MainOf(mir).body :
           /\ i < Len(MainOf(mir).body)
           /\ MainOf(mir).body[i].k = "Declare"
           /\ MainOf(mir).body[i].expression.k = "BinaryOperation"
           /\ MainOf(mir).body[i].typedef.d = "Resolved"
           /\ MainOf(mir).body[i].expression.ty.d = "Resolved"
           /\ MainOf(mir).body[i].expression.lhs.ty.d = "Resolved"
           /\ MainOf(after_make_declarations_mir).body[i].typedef = Pending


(***************************************************************************)
(* The type of a declared variable                                         *)
(***************************************************************************)
\* C29: a variable has one type: the type entered into the scope for the
\* variable of a Declare is the type written into the slot of the Declare,
\* so a later read of the variable is typed as its declaration, also when
\* the annotation of the Declare differs from the inferred type of the
\* initializer.
C29_OneTypePerVariable ==
    (BodyInferred /\ outcome.op = "returned") =>
        /\ TypeInScope = DeclareInferred.typedef
        /\ outcome.body[2].expression.t.ty = DeclareInferred.typedef


(***************************************************************************)
(* The assembly-level encoder                                              *)
(***************************************************************************)
AsmEncoded == cmode = "asm" /\ outcome # NoCall

\* C30: encode_asm returns one word per AssemblyInstruction, in the order
\* of the input; the word of StackOffset{bytes} is pseudo-op 01101 followed
\* by bytes modulo 2^27, and the word of every other assembly instruction is
\* 0, the word of Noop.
C30_AsmOnlyStackOffset ==
    AsmEncoded =>
        /\ outcome.op = "returned"
        /\ Len(outcome.words) = Len(invoked.code)
        /\ \A k \in DOMAIN invoked.code :
               IF invoked.code[k].asm = "StackOffset"
               THEN /\ TopBits(outcome.words[k]) = 13
                    /\ LowBits(outcome.words[k]) = invoked.code[k].bytes % (2 ^ 27)
               ELSE /\ outcome.words[k] = Zero32
                    /\ encode_instruction([op |-> "Noop"], overflow_checks)
                         = Ok([layout |-> "noop", current |-> outcome.words[k]])

\* C30 witness: an instruction that is no StackOffset followed by
\* StackOffset{2^27 + 5} gave the words 0 and 01101 followed by 5
C30_Witness ==
    /\ AsmEncoded
    /\ invoked.code = <<AsmOther("a"), AsmStackOffset(2 ^ 27 + 5)>>
    /\ outcome.words = <<Zero32, U32(13, 5)>>


(***************************************************************************)
(* Synthetic names and the scope checker                                   *)
(***************************************************************************)
\* the names lowering may have given to the synthetics of a body: a body
\* holds fewer synthetic Declares than statements
SyntheticNames(body) == {make_intermediary(k) : k \in 0 .. Len(body)}
SyntheticReads(body, i) == ReadsOfStatement(body[i]) \cap SyntheticNames(body)
DeclaredBeforeRead(body) ==
    \A i \in DOMAIN body : \A v \in SyntheticReads(body, i) :
        \E j \in SyntheticDeclares(body) : j < i /\ body[j].var = v
\* what the scope checker says about a name
ScopeMessages(v, function_name) ==
    {NotFound(v, function_name), DeclaredTwice(v), AssignUndeclared(v)}

\* C27: every synthetic is declared before it is read: in the statements
\* lowering gives for a function body each read of a synthetic $k is in a
\* statement after the Declare of $k, and the scope checker never fails
\* with a message about a synthetic name.
C27_SyntheticDeclaredBeforeRead ==
    /\ stage = "lowered" =>
           \A fn \in FunctionsOf(initial_mir) : DeclaredBeforeRead(fn.body)
    /\ stage = "scope_failed" =>
           \A fn \in FunctionsOf(initial_mir) : \A v \in SyntheticNames(fn.body) :
               failure \notin ScopeMessages(v, fn.function_name)

\* C27 witness: the scope checker accepted a main whose last statement reads
\* two synthetics that were declared before it
C27_Witness ==
    /\ stage = "checked"
    /\ \E i \in DOMAIN MainOf(initial_mir).body :
           /\ Cardinality(SyntheticReads(MainOf(initial_mir).body, i)) = 2
           /\ i = Len(MainOf(initial_mir).body)
    /\ DeclaredBeforeRead(MainOf(initial_mir).body)


(***************************************************************************)
(* The condition of an If in the scope checker                             *)
(***************************************************************************)
\* the variables that are the condition of an If of body[i..] and are not in
\* scope there, scope being the names in scope before body[i]
RECURSIVE UnknownConditions(_, _, _)
UnknownConditions(body, i, scope) ==
    IF i > Len(body) THEN {}
    ELSE (IF body[i].k = "If"
          THEN (IF body[i].condition.e.k = "Variable"
                THEN {body[i].condition.e.name} \ scope ELSE {})
               \cup UnknownConditions(body[i].true_branch, 1, scope)
               \cup UnknownConditions(body[i].false_branch, 1, scope)
          ELSE {})
         \cup UnknownConditions(body, i + 1,
                                IF body[i].k = "Declare" THEN scope \cup {body[i].var}
                                ELSE scope)
ConditionsNotFound ==
    UNION {{NotFound(v, fn.function_name) :
               v \in UnknownConditions(fn.body, 1,
                         GlobalNames(after_make_declarations_mir)
                             \cup {fn.parameters[i].name : i \in DOMAIN fn.parameters})} :
           fn \in FunctionsOf(after_make_declarations_mir)}

\* C28: the condition of an If is scope-checked like any other read: a unit
\* with an If whose condition is a variable that is no local in scope, no
\* parameter and no global, and with no other offence, makes the scope
\* checker fail with "Variable v not found" for that variable.
C28_ConditionScopeChecked ==
    (ScopeChecked /\ ConditionsNotFound # {} /\ NoOffence) =>
        (stage = "scope_failed" /\ failure \in ConditionsNotFound)

====
